---- MODULE Spec2Model ----
(***************************************************************************)
(* Session engine of coreclaw (internal/agent/session.go, the variant      *)
(* with the Task queue): the producer goroutine that calls SubmitTask,     *)
(* the runAsync goroutines it spawns, and an adaptor thread that calls     *)
(* CancelCurrent.  Every action is one step of one goroutine and touches   *)
(* the shared Session fields the way the Go statement it models does.      *)
(***************************************************************************)
EXTENDS Integers, Sequences, FiniteSets, TLC

\* ---------------------------------------------------------------- bounds
\* Spec: capacity of taskQueue (NewSession makes it 10; the model checks a
\* smaller channel so that "queue full" is reached with few submissions),
\* number of SubmitTask calls, of CancelCurrent calls and of runAsync
\* goroutines in one behaviour
QueueCap == 2

MaxTasks == 3

MaxCancels == 1

MaxLoops == 2

\* SpecSmall: the same four bounds of a smaller session
SmallQueueCap == 1

SmallMaxTasks == 2

SmallMaxCancels == 2

SmallMaxLoops == 2

\* ---------------------------------------------------------------- state
VARIABLES
    taskQueue,      \* Session.taskQueue: buffered channel, FIFO of tasks
    inProgress,     \* Session.inProgress
    cancelCurrent,  \* Session.cancelCurrent: 0 is nil, else the id of the
                    \* task whose context the stored cancel func cancels
    canceled,       \* ids of the tasks whose context has been canceled
    Messages,       \* Session.Messages (history)
    TotalSpent,     \* Session.TotalSpent
    ContextTokens,  \* Session.ContextTokens
    Output,         \* frames written to Processor.Output, in write order
    loops,          \* the runAsync goroutines, in the order of their go
    sub,            \* the SubmitTask call of the producer goroutine
    nextId,         \* number of SubmitTask calls made so far, plus one
    dropped,        \* ids of the tasks SubmitTask could not enqueue
    canc,           \* the CancelCurrent call of the adaptor thread
    cancelLog,      \* one entry per CancelCurrent call that has returned
    panicked,       \* a nil func value has been called
    lim,            \* what the environment of this session may do: the
                    \* channel capacity given to make(chan Task, cap), the
                    \* number of calls it makes and the inputs it draws
    codec           \* the bytes of the stream: the Write calls made on an
                    \* Output, the pieces an Input holds, and the position
                    \* of the ReadTLV call and of the decoder that read them

vars == <<taskQueue, inProgress, cancelCurrent, canceled, Messages,
          TotalSpent, ContextTokens, Output, loops, sub, nextId, dropped,
          canc, cancelLog, panicked, lim, codec>>

\* ---------------------------------------------------------------- data
\* Task: UserPrompt(text) or CommandPrompt{Command: "summarize"}; a task is
\* [id, kind], where the id stands for the text of the submission
TaskKinds == {"prompt", "summarize"}

NoTask == [id |-> 0, kind |-> "none"]

\* fantasy.Usage as the Agent reports it
ZeroUsage == [InputTokens |-> 0, OutputTokens |-> 0, TotalTokens |-> 0,
              ReasoningTokens |-> 0]

AgentUsages == {[InputTokens |-> 2, OutputTokens |-> 1, TotalTokens |-> 3,
                 ReasoningTokens |-> 1]}

\* what Agent.Stream returns: an assistant message, no assistant message in
\* the last step, or an error
AgentOutcomes == {"ok", "empty", "err"}

\* stream tags
TagError == "E"

TagNotify == "N"

TagSystem == "S"

TagPromptStart == "P"

TagStreamGap == "G"

Frame(tag, msg, id, a, b) ==
    [tag |-> tag, msg |-> msg, id |-> id, a |-> a, b |-> b]

\* WriteTLV: one frame appended to the output by one Write call
WriteTLV(out, tag, msg, id, a, b) == Append(out, Frame(tag, msg, id, a, b))

\* writeGapped: gap frame, the tagged frame, gap frame
writeGapped(out, tag, msg, id) ==
    WriteTLV(WriteTLV(WriteTLV(out, TagStreamGap, "", 0, 0, 0),
                      tag, msg, id, 0, 0),
             TagStreamGap, "", 0, 0, 0)

writeNotify(out, msg) == writeGapped(out, TagNotify, msg, 0)

\* signalPromptStart / signalCommandStart: the payload is the prompt text,
\* or "/" + the command name
signalStart(out, task) ==
    writeGapped(out, TagPromptStart,
                IF task.kind = "prompt" THEN "" ELSE "/summarize", task.id)

\* sendSystemInfo: {"context":a,"total":b}; id is the task on whose behalf
\* the frame is written (not part of the payload)
sendSystemInfo(out, id, ctxTokens, spent) ==
    WriteTLV(out, TagSystem, "", id, ctxTokens, spent.TotalTokens)

AddUsage(spent, u) ==
    [InputTokens |-> spent.InputTokens + u.InputTokens,
     OutputTokens |-> spent.OutputTokens + u.OutputTokens,
     TotalTokens |-> spent.TotalTokens + u.TotalTokens,
     ReasoningTokens |-> spent.ReasoningTokens + u.ReasoningTokens]

Msg(role, what, id) == [role |-> role, what |-> what, id |-> id]

\* ---------------------------------------------------------------- Init
\* a session whose frames are looked at as whole frames, not as bytes
NoCodec == [pc |-> "off"]

InitFields ==
    /\ taskQueue = <<>>
    /\ inProgress = FALSE
    /\ cancelCurrent = 0
    /\ canceled = {}
    /\ Messages = <<>>
    /\ TotalSpent = ZeroUsage
    /\ ContextTokens = 0
    /\ Output = <<>>
    /\ loops = <<>>
    /\ sub = [pc |-> "idle", task |-> NoTask]
    /\ nextId = 1
    /\ dropped = {}
    /\ canc = [pc |-> "idle", h |-> 0]
    /\ cancelLog = <<>>
    /\ panicked = FALSE

InitSession ==
    /\ InitFields
    /\ codec = NoCodec

Init ==
    /\ InitSession
    /\ lim = [cap |-> QueueCap, tasks |-> MaxTasks, cancels |-> MaxCancels,
              loops |-> MaxLoops, kinds |-> {"prompt"},
              outcomes |-> {"ok", "err"}]

InitSmall ==
    /\ InitSession
    /\ lim = [cap |-> SmallQueueCap, tasks |-> SmallMaxTasks,
              cancels |-> SmallMaxCancels, loops |-> SmallMaxLoops,
              kinds |-> TaskKinds, outcomes |-> AgentOutcomes]

\* ---------------------------------------------------------------- SubmitTask
\* SubmitTaskEnqueue over a queue that makes room by evicting its oldest
\* task instead of refusing the new one
SubmitTaskEnqueue_EvictsOldest ==
    /\ sub.pc = "idle"
    /\ nextId <= lim.tasks
    /\ \E k \in lim.kinds :
         LET task == [id |-> nextId, kind |-> k] IN
         /\ taskQueue' = IF Len(taskQueue) < lim.cap
                         THEN Append(taskQueue, task)
                         ELSE Append(Tail(taskQueue), task)
         /\ sub' = [pc |-> "queued", task |-> task]
         /\ dropped' = dropped
    /\ nextId' = nextId + 1
    /\ UNCHANGED <<inProgress, cancelCurrent, canceled, Messages, TotalSpent,
                   ContextTokens, Output, loops, canc, cancelLog, panicked, lim, codec>>

\* queueTask: non-blocking send on the channel
SubmitTaskEnqueue ==
    /\ sub.pc = "idle"
    /\ nextId <= lim.tasks
    /\ \E k \in lim.kinds :
         LET task == [id |-> nextId, kind |-> k] IN
         IF Len(taskQueue) < lim.cap
         THEN /\ taskQueue' = Append(taskQueue, task)
              /\ sub' = [pc |-> "queued", task |-> task]
              /\ dropped' = dropped
         ELSE /\ taskQueue' = taskQueue
              /\ sub' = [pc |-> "full", task |-> task]
              /\ dropped' = dropped \cup {nextId}
    /\ nextId' = nextId + 1
    /\ UNCHANGED <<inProgress, cancelCurrent, canceled, Messages, TotalSpent,
                   ContextTokens, Output, loops, canc, cancelLog, panicked, lim, codec>>

\* if s.inProgress { s.writeNotify("[Queued] ...") }
SubmitTaskNotifyQueued ==
    /\ sub.pc = "queued"
    /\ Output' = IF inProgress THEN writeNotify(Output, "[Queued]") ELSE Output
    /\ sub' = [sub EXCEPT !.pc = "start"]
    /\ UNCHANGED <<taskQueue, inProgress, cancelCurrent, canceled, Messages,
                   TotalSpent, ContextTokens, loops, nextId, dropped, canc,
                   cancelLog, panicked, lim, codec>>

\* if !s.inProgress { go s.runAsync() }
SubmitTaskStart ==
    /\ sub.pc = "start"
    /\ (~inProgress) => Len(loops) < lim.loops
    /\ loops' = IF inProgress THEN loops
                ELSE Append(loops, [pc |-> "spawned", task |-> NoTask])
    /\ sub' = [pc |-> "idle", task |-> NoTask]
    /\ UNCHANGED <<taskQueue, inProgress, cancelCurrent, canceled, Messages,
                   TotalSpent, ContextTokens, Output, nextId, dropped, canc,
                   cancelLog, panicked, lim, codec>>

\* SubmitTaskBusy with the fall-through of the older SubmitPrompt, which
\* went on to start the processing goroutine after the "[Busy]" notify
SubmitTaskBusy_FallsThrough ==
    /\ sub.pc = "full"
    /\ Output' = writeNotify(Output, "[Busy]")
    /\ loops' = Append(loops, [pc |-> "spawned", task |-> NoTask])
    /\ sub' = [pc |-> "idle", task |-> NoTask]
    /\ UNCHANGED <<taskQueue, inProgress, cancelCurrent, canceled, Messages,
                   TotalSpent, ContextTokens, nextId, dropped, canc,
                   cancelLog, panicked, lim, codec>>

\* else { s.writeNotify("[Busy] ...") }
SubmitTaskBusy ==
    /\ sub.pc = "full"
    /\ Output' = writeNotify(Output, "[Busy]")
    /\ sub' = [pc |-> "idle", task |-> NoTask]
    /\ UNCHANGED <<taskQueue, inProgress, cancelCurrent, canceled, Messages,
                   TotalSpent, ContextTokens, loops, nextId, dropped, canc,
                   cancelLog, panicked, lim, codec>>

\* ---------------------------------------------------------------- runAsync
LoopVarsUnchanged ==
    UNCHANGED <<sub, nextId, dropped, canc, cancelLog, panicked, lim, codec>>

\* the goroutine started by go s.runAsync() gets to run: s.inProgress = true
runAsyncBegin(i) ==
    /\ loops[i].pc = "spawned"
    /\ inProgress' = TRUE
    /\ loops' = [loops EXCEPT ![i].pc = "dequeue"]
    /\ UNCHANGED <<taskQueue, cancelCurrent, canceled, Messages, TotalSpent,
                   ContextTokens, Output>>
    /\ LoopVarsUnchanged

\* getQueuedTask: non-blocking receive; if !ok { break }
getQueuedTask(i) ==
    /\ loops[i].pc = "dequeue"
    /\ IF taskQueue /= <<>>
       THEN /\ taskQueue' = Tail(taskQueue)
            /\ loops' = [loops EXCEPT ![i] = [pc |-> "setCancel",
                                              task |-> Head(taskQueue)]]
       ELSE /\ taskQueue' = taskQueue
            /\ loops' = [loops EXCEPT ![i].pc = "exit"]
    /\ UNCHANGED <<inProgress, cancelCurrent, canceled, Messages, TotalSpent,
                   ContextTokens, Output>>
    /\ LoopVarsUnchanged

\* taskCtx, taskCancel := context.WithCancel(...); s.cancelCurrent = taskCancel
runAsyncSetCancel(i) ==
    /\ loops[i].pc = "setCancel"
    /\ cancelCurrent' = loops[i].task.id
    /\ loops' = [loops EXCEPT ![i].pc = "signal"]
    /\ UNCHANGED <<taskQueue, inProgress, canceled, Messages, TotalSpent,
                   ContextTokens, Output>>
    /\ LoopVarsUnchanged

\* case UserPrompt: s.signalPromptStart(string(task)), then ProcessPrompt up
\* to the Agent call: s.Messages = append(s.Messages, NewUserMessage(prompt)).
\* case CommandPrompt: s.signalCommandStart(task.Command), then Summarize up
\* to the Agent call, which appends nothing
runAsyncStartTask(i) ==
    /\ loops[i].pc = "signal"
    /\ Output' = signalStart(Output, loops[i].task)
    /\ Messages' = IF loops[i].task.kind = "prompt"
                   THEN Append(Messages,
                               Msg("user", "prompt", loops[i].task.id))
                   ELSE Messages
    /\ loops' = [loops EXCEPT ![i].pc = "agent"]
    /\ UNCHANGED <<taskQueue, inProgress, cancelCurrent, canceled, TotalSpent,
                   ContextTokens>>
    /\ LoopVarsUnchanged

\* Session.ProcessPrompt, from the return of Processor.ProcessPrompt on:
\* Processor.ProcessPrompt returns a zero Usage together with an error
ProcessPromptFinish(i, outcome, usage) ==
    LET u == IF outcome = "err" THEN ZeroUsage ELSE usage
        spent == AddUsage(TotalSpent, u)
        ctxTokens == ContextTokens + u.TotalTokens
    IN  /\ TotalSpent' = spent
        /\ ContextTokens' = ctxTokens
        /\ Output' = sendSystemInfo(Output, loops[i].task.id, ctxTokens,
                                          spent)
        /\ Messages' = IF outcome = "ok"
                       THEN Append(Messages,
                                   Msg("assistant", "reply", loops[i].task.id))
                       ELSE Messages

\* Session.Summarize, from the return of Processor.ProcessPrompt on
SummarizeFinish(i, outcome, usage) ==
    IF outcome = "err"
    THEN UNCHANGED <<Messages, TotalSpent, ContextTokens, Output>>
    ELSE LET spent == AddUsage(TotalSpent, usage) IN
         /\ Messages' = << Msg(IF outcome = "ok" THEN "assistant" ELSE "",
                               "summary", loops[i].task.id) >>
         /\ TotalSpent' = spent
         /\ ContextTokens' = usage.OutputTokens
         /\ Output' = sendSystemInfo(Output, loops[i].task.id,
                                     usage.OutputTokens, spent)

\* Agent.Stream returns (the Agent is external: any outcome, whether or not
\* the context has been canceled), and the caller finishes the task
AgentReturn(i) ==
    /\ loops[i].pc = "agent"
    /\ \E outcome \in lim.outcomes, usage \in AgentUsages :
         IF loops[i].task.kind = "prompt"
         THEN ProcessPromptFinish(i, outcome, usage)
         ELSE SummarizeFinish(i, outcome, usage)
    /\ loops' = [loops EXCEPT ![i].pc = "check"]
    /\ UNCHANGED <<taskQueue, inProgress, cancelCurrent, canceled>>
    /\ LoopVarsUnchanged

\* runAsyncCheckCanceled of a loop that stops at a canceled command instead
\* of going on with the queue
runAsyncCheckCanceled_StopsAtCommand(i) ==
    /\ loops[i].pc = "check"
    /\ Messages' = IF loops[i].task.id \in canceled
                   THEN Append(Messages,
                               Msg("assistant", "canceled", loops[i].task.id))
                   ELSE Messages
    /\ loops' = [loops EXCEPT ![i].pc =
                    IF /\ loops[i].task.id \in canceled
                       /\ loops[i].task.kind = "summarize"
                    THEN "exit" ELSE "clear"]
    /\ UNCHANGED <<taskQueue, inProgress, cancelCurrent, canceled, TotalSpent,
                   ContextTokens, Output>>
    /\ LoopVarsUnchanged

\* if taskCtx.Err() == context.Canceled { s.Messages = append(..., assistant
\* "The user canceled.") }
runAsyncCheckCanceled(i) ==
    /\ loops[i].pc = "check"
    /\ Messages' = IF loops[i].task.id \in canceled
                   THEN Append(Messages,
                               Msg("assistant", "canceled", loops[i].task.id))
                   ELSE Messages
    /\ loops' = [loops EXCEPT ![i].pc = "clear"]
    /\ UNCHANGED <<taskQueue, inProgress, cancelCurrent, canceled, TotalSpent,
                   ContextTokens, Output>>
    /\ LoopVarsUnchanged

\* runAsyncClearCancel without the assignment s.cancelCurrent = nil
runAsyncClearCancel_KeepsHandle(i) ==
    /\ loops[i].pc = "clear"
    /\ loops' = [loops EXCEPT ![i] = [pc |-> "dequeue", task |-> NoTask]]
    /\ UNCHANGED <<taskQueue, inProgress, cancelCurrent, canceled, Messages,
                   TotalSpent, ContextTokens, Output>>
    /\ LoopVarsUnchanged

\* s.cancelCurrent = nil (both branches), then the next iteration
runAsyncClearCancel(i) ==
    /\ loops[i].pc = "clear"
    /\ cancelCurrent' = 0
    /\ loops' = [loops EXCEPT ![i] = [pc |-> "dequeue", task |-> NoTask]]
    /\ UNCHANGED <<taskQueue, inProgress, canceled, Messages, TotalSpent,
                   ContextTokens, Output>>
    /\ LoopVarsUnchanged

\* defer func() { s.inProgress = false }()
runAsyncExit(i) ==
    /\ loops[i].pc = "exit"
    /\ inProgress' = FALSE
    /\ loops' = [loops EXCEPT ![i].pc = "done"]
    /\ UNCHANGED <<taskQueue, cancelCurrent, canceled, Messages, TotalSpent,
                   ContextTokens, Output>>
    /\ LoopVarsUnchanged

runAsync(i) ==
    \/ runAsyncBegin(i)
    \/ getQueuedTask(i)
    \/ runAsyncSetCancel(i)
    \/ runAsyncStartTask(i)
    \/ AgentReturn(i)
    \/ runAsyncCheckCanceled(i)
    \/ runAsyncClearCancel(i)
    \/ runAsyncExit(i)

\* ---------------------------------------------------------------- CancelCurrent
\* ids of the tasks a runAsync goroutine has dequeued and not yet finished
HeldTasks ==
    {loops[i].task.id : i \in {j \in DOMAIN loops : loops[j].task.id /= 0}}

\* ids of the tasks that are inside the Agent call
RunningTasks ==
    {loops[i].task.id : i \in {j \in DOMAIN loops : loops[j].pc = "agent"}}

QueuedIds == [k \in DOMAIN taskQueue |-> taskQueue[k].id]

\* if s.cancelCurrent != nil: the field is loaded for the test; return false
\* when it is nil.  cancelLog gets one entry per call that has returned: ret,
\* the value returned; h, the task whose handle was called; q, the queue at
\* the moment of the call of the handle
CancelCurrentTest ==
    /\ canc.pc = "idle"
    /\ Len(cancelLog) < lim.cancels
    /\ IF cancelCurrent /= 0
       THEN /\ canc' = [pc |-> "call", h |-> cancelCurrent]
            /\ cancelLog' = cancelLog
       ELSE /\ canc' = canc
            /\ cancelLog' = Append(cancelLog,
                                   [ret |-> FALSE, h |-> 0, q |-> <<>>])
    /\ UNCHANGED <<taskQueue, inProgress, cancelCurrent, canceled, Messages,
                   TotalSpent, ContextTokens, Output, loops, sub, nextId,
                   dropped, panicked, lim, codec>>

\* CancelCurrentCall over one cancellation context for the whole session:
\* the cancellation also reaches the tasks that are still queued
CancelCurrentCall_CancelsQueued ==
    /\ canc.pc = "call"
    /\ \E h \in {canc.h, cancelCurrent} :
         IF h = 0
         THEN /\ panicked' = TRUE
              /\ canc' = [canc EXCEPT !.pc = "panic"]
              /\ UNCHANGED <<canceled, cancelLog>>
         ELSE /\ canceled' = canceled \cup {h}
                               \cup {taskQueue[k].id : k \in DOMAIN taskQueue}
              /\ cancelLog' = Append(cancelLog,
                                     [ret |-> TRUE, h |-> h, q |-> QueuedIds])
              /\ canc' = [pc |-> "idle", h |-> 0]
              /\ panicked' = panicked
    /\ UNCHANGED <<taskQueue, inProgress, cancelCurrent, Messages, TotalSpent,
                   ContextTokens, Output, loops, sub, nextId, dropped, lim, codec>>

\* s.cancelCurrent(); return true.  The field is read without
\* synchronization: the call uses either the value loaded for the test or a
\* second load, and calling a nil func value panics
CancelCurrentCall ==
    /\ canc.pc = "call"
    /\ \E h \in {canc.h, cancelCurrent} :
         IF h = 0
         THEN /\ panicked' = TRUE
              /\ canc' = [canc EXCEPT !.pc = "panic"]
              /\ UNCHANGED <<canceled, cancelLog>>
         ELSE /\ canceled' = canceled \cup {h}
              /\ cancelLog' = Append(cancelLog,
                                     [ret |-> TRUE, h |-> h, q |-> QueuedIds])
              /\ canc' = [pc |-> "idle", h |-> 0]
              /\ panicked' = panicked
    /\ UNCHANGED <<taskQueue, inProgress, cancelCurrent, Messages, TotalSpent,
                   ContextTokens, Output, loops, sub, nextId, dropped, lim, codec>>

Next ==
    \/ SubmitTaskEnqueue
    \/ SubmitTaskNotifyQueued
    \/ SubmitTaskStart
    \/ SubmitTaskBusy
    \/ \E i \in DOMAIN loops : runAsync(i)
    \/ CancelCurrentTest
    \/ CancelCurrentCall

Spec == Init /\ [][Next]_vars

SpecSmall == InitSmall /\ [][Next]_vars

\* a goroutine that can take a step takes it, a call that has begun goes on
\* to its return, and every Agent call returns; nothing obliges the
\* environment to begin a SubmitTask or a CancelCurrent call
LoopStep(i) == i \in DOMAIN loops /\ runAsync(i)

Fairness ==
    /\ \A i \in 1..SmallMaxLoops : WF_vars(LoopStep(i))
    /\ WF_vars(SubmitTaskNotifyQueued)
    /\ WF_vars(SubmitTaskStart)
    /\ WF_vars(SubmitTaskBusy)
    /\ WF_vars(CancelCurrentCall)

FairSpecSmall == InitSmall /\ [][Next]_vars /\ Fairness

\* ---------------------------------------------------------------- full queue
\* SpecFill: the session of NewSession, whose queue has room for FillCap
\* tasks (make(chan Task, 10)), at the moment its first task is inside the
\* Agent call; the Agent call does not return and the producer makes
\* FillCap + 1 further SubmitTask calls
FillCap == 10

InitRunning ==
    \E k \in TaskKinds :
        LET first == [id |-> 1, kind |-> k] IN
        /\ taskQueue = <<>>
        /\ inProgress = TRUE
        /\ cancelCurrent = 1
        /\ canceled = {}
        /\ Messages = IF k = "prompt" THEN <<Msg("user", "prompt", 1)>>
                      ELSE <<>>
        /\ TotalSpent = ZeroUsage
        /\ ContextTokens = 0
        /\ Output = signalStart(<<>>, first)
        /\ loops = <<[pc |-> "agent", task |-> first]>>
        /\ sub = [pc |-> "idle", task |-> NoTask]
        /\ nextId = 2
        /\ dropped = {}
        /\ canc = [pc |-> "idle", h |-> 0]
        /\ cancelLog = <<>>
        /\ panicked = FALSE
        /\ codec = NoCodec
        /\ lim = [cap |-> FillCap, tasks |-> FillCap + 2, cancels |-> 0,
                  loops |-> 1, kinds |-> TaskKinds, outcomes |-> {}]

NextFill ==
    \/ SubmitTaskEnqueue
    \/ SubmitTaskNotifyQueued
    \/ SubmitTaskStart
    \/ SubmitTaskBusy

SpecFill == InitRunning /\ [][NextFill]_vars

\* ---------------------------------------------------------------- streaming
\* SpecStream: the producer and the processing loops together with the
\* callbacks the Agent invokes during Agent.Stream (Processor.ProcessPrompt),
\* in a session whose adaptor makes no CancelCurrent call; a frame written
\* by a callback carries the id of the task whose Agent call invokes it
StreamQueueCap == 1

StreamMaxTasks == 2

StreamMaxLoops == 2

\* frames the callbacks of one Agent call write
MaxStreamFrames == 2

TagAssistantText == "B"

TagReasoning == "R"

TagTool == "t"

ContentTags == {TagAssistantText, TagReasoning, TagTool}

StreamCallbacks == {"OnTextStart", "OnTextDelta", "OnTextEnd",
                    "OnReasoningStart", "OnReasoningDelta", "OnReasoningEnd",
                    "OnToolCall", "OnToolResult"}

\* the tools handleToolCall has a case for
KnownTools == {"posix_shell", "activate_skill", "read_file", "write_file"}

\* the tool calls of the Agent: the name of the tool, and what the
\* extractor of handleToolCall finds in the JSON input ("" when the input
\* does not parse or lacks the field)
ToolCalls == [name : {"read_file", "web_search"}, arg : {"", "a.txt"}]

\* handleToolCall: switch tc.ToolName, with value set in the four cases when
\* the extracted argument is not empty; if value != "" { WriteTLV(TagTool,
\* value) }
handleToolCall(out, tc, id) ==
    LET value == IF tc.name \in KnownTools /\ tc.arg /= ""
                 THEN tc.name \o ": " \o tc.arg
                 ELSE ""
    IN  IF value /= "" THEN WriteTLV(out, TagTool, value, id, 0, 0) ELSE out

\* the callbacks with an OnToolResult that forwards the result as a frame
Callback_ForwardsToolResult(out, cb, tc, id) ==
    CASE cb = "OnTextDelta" -> WriteTLV(out, TagAssistantText, "", id, 0, 0)
      [] cb = "OnTextEnd" -> WriteTLV(out, TagStreamGap, "", id, 0, 0)
      [] cb = "OnReasoningDelta" -> WriteTLV(out, TagReasoning, "", id, 0, 0)
      [] cb = "OnReasoningEnd" -> WriteTLV(out, TagStreamGap, "", id, 0, 0)
      [] cb = "OnToolCall" ->
            WriteTLV(handleToolCall(out, tc, id), TagStreamGap, "", id, 0, 0)
      [] cb = "OnToolResult" -> WriteTLV(out, TagAssistantText, "", id, 0, 0)
      [] OTHER -> out

\* the callbacks of streamCall
Callback(out, cb, tc, id) ==
    CASE cb = "OnTextDelta" -> WriteTLV(out, TagAssistantText, "", id, 0, 0)
      [] cb = "OnTextEnd" -> WriteTLV(out, TagStreamGap, "", id, 0, 0)
      [] cb = "OnReasoningDelta" -> WriteTLV(out, TagReasoning, "", id, 0, 0)
      [] cb = "OnReasoningEnd" -> WriteTLV(out, TagStreamGap, "", id, 0, 0)
      [] cb = "OnToolCall" ->
            WriteTLV(handleToolCall(out, tc, id), TagStreamGap, "", id, 0, 0)
      [] OTHER -> out

\* positions on Output of the frames of task t that carry one of the tags
PosOf(t, tags) ==
    {k \in DOMAIN Output : Output[k].id = t /\ Output[k].tag \in tags}

\* AgentStream with an Agent that goes on invoking callbacks after
\* Agent.Stream has returned
AgentStream_AfterReturn(i) ==
    /\ loops[i].pc \in {"agent", "check"}
    /\ Cardinality(PosOf(loops[i].task.id, ContentTags \cup {TagStreamGap}))
          < MaxStreamFrames
    /\ \E cb \in StreamCallbacks, tc \in ToolCalls :
          /\ Output' = Callback(Output, cb, tc, loops[i].task.id)
          /\ loops' = [loops EXCEPT ![i] =
                          [pc |-> @.pc, task |-> @.task, cb |-> cb]]
    /\ UNCHANGED <<taskQueue, inProgress, cancelCurrent, canceled, Messages,
                   TotalSpent, ContextTokens>>
    /\ LoopVarsUnchanged

\* Agent.Stream invokes one callback while the call of loop i is running;
\* the goroutine remembers which callback it ran last
AgentStream(i) ==
    /\ loops[i].pc = "agent"
    /\ Cardinality(PosOf(loops[i].task.id, ContentTags \cup {TagStreamGap}))
          < MaxStreamFrames
    /\ \E cb \in StreamCallbacks, tc \in ToolCalls :
          /\ Output' = Callback(Output, cb, tc, loops[i].task.id)
          /\ loops' = [loops EXCEPT ![i] =
                          [pc |-> @.pc, task |-> @.task, cb |-> cb]]
    /\ UNCHANGED <<taskQueue, inProgress, cancelCurrent, canceled, Messages,
                   TotalSpent, ContextTokens>>
    /\ LoopVarsUnchanged

InitStream ==
    /\ InitSession
    /\ lim = [cap |-> StreamQueueCap, tasks |-> StreamMaxTasks,
              cancels |-> 0, loops |-> StreamMaxLoops,
              kinds |-> TaskKinds, outcomes |-> AgentOutcomes]

NextStream ==
    \/ SubmitTaskEnqueue
    \/ SubmitTaskNotifyQueued
    \/ SubmitTaskStart
    \/ SubmitTaskBusy
    \/ \E i \in DOMAIN loops : runAsync(i)
    \/ \E i \in DOMAIN loops : AgentStream(i)

SpecStream == InitStream /\ [][NextStream]_vars

\* ---------------------------------------------------------------- usage accounting
\* SpecRace: the producer and the processing loops, with the statements
\* s.TotalSpent.X += usage.X and s.ContextTokens += usage.TotalTokens of
\* ProcessPrompt and Summarize as what they are for two goroutines that
\* run them without synchronization: a load of the fields, then a store of
\* the sums computed from the loaded values
RaceQueueCap == 2

RaceMaxTasks == 3

RaceMaxLoops == 2

\* Agent.Stream returns and the caller loads the fields it is about to
\* update; the loop keeps what the Agent returned and what it has loaded
AccountLoad(i) ==
    /\ loops[i].pc = "agent"
    /\ \E outcome \in lim.outcomes, usage \in AgentUsages :
          loops' = [loops EXCEPT ![i] =
                       [pc |-> "account", task |-> loops[i].task,
                        outcome |-> outcome,
                        usage |-> IF outcome = "err" THEN ZeroUsage ELSE usage,
                        spent |-> TotalSpent, ctxTokens |-> ContextTokens]]
    /\ UNCHANGED <<taskQueue, inProgress, cancelCurrent, canceled, Messages,
                   TotalSpent, ContextTokens, Output>>
    /\ LoopVarsUnchanged

\* the stores of Session.ProcessPrompt, sendSystemInfo and the append of the
\* assistant message
ProcessPromptStore(i) ==
    LET spent == AddUsage(loops[i].spent, loops[i].usage)
        ctxTokens == loops[i].ctxTokens + loops[i].usage.TotalTokens
    IN  /\ TotalSpent' = spent
        /\ ContextTokens' = ctxTokens
        /\ Output' = sendSystemInfo(Output, loops[i].task.id, ctxTokens,
                                    spent)
        /\ Messages' = IF loops[i].outcome = "ok"
                       THEN Append(Messages,
                                   Msg("assistant", "reply", loops[i].task.id))
                       ELSE Messages

\* SummarizeStore of a Summarize that reports the counters after a failed
\* call as ProcessPrompt does
SummarizeStore_ReportsFailure(i) ==
    IF loops[i].outcome = "err"
    THEN /\ UNCHANGED <<Messages, TotalSpent, ContextTokens>>
         /\ Output' = sendSystemInfo(Output, loops[i].task.id, ContextTokens,
                                     TotalSpent)
    ELSE LET spent == AddUsage(loops[i].spent, loops[i].usage) IN
         /\ Messages' = << Msg(IF loops[i].outcome = "ok" THEN "assistant"
                               ELSE "", "summary", loops[i].task.id) >>
         /\ TotalSpent' = spent
         /\ ContextTokens' = loops[i].usage.OutputTokens
         /\ Output' = sendSystemInfo(Output, loops[i].task.id,
                                     loops[i].usage.OutputTokens, spent)

\* the stores of Session.Summarize and sendSystemInfo
SummarizeStore(i) ==
    IF loops[i].outcome = "err"
    THEN UNCHANGED <<Messages, TotalSpent, ContextTokens, Output>>
    ELSE LET spent == AddUsage(loops[i].spent, loops[i].usage) IN
         /\ Messages' = << Msg(IF loops[i].outcome = "ok" THEN "assistant"
                               ELSE "", "summary", loops[i].task.id) >>
         /\ TotalSpent' = spent
         /\ ContextTokens' = loops[i].usage.OutputTokens
         /\ Output' = sendSystemInfo(Output, loops[i].task.id,
                                     loops[i].usage.OutputTokens, spent)

AccountStore(i) ==
    /\ loops[i].pc = "account"
    /\ IF loops[i].task.kind = "prompt"
       THEN ProcessPromptStore(i)
       ELSE SummarizeStore(i)
    /\ loops' = [loops EXCEPT ![i] = [pc |-> "check", task |-> loops[i].task]]
    /\ UNCHANGED <<taskQueue, inProgress, cancelCurrent, canceled>>
    /\ LoopVarsUnchanged

runAsyncRace(i) ==
    \/ runAsyncBegin(i)
    \/ getQueuedTask(i)
    \/ runAsyncSetCancel(i)
    \/ runAsyncStartTask(i)
    \/ AccountLoad(i)
    \/ AccountStore(i)
    \/ runAsyncCheckCanceled(i)
    \/ runAsyncClearCancel(i)
    \/ runAsyncExit(i)

InitRace ==
    /\ InitSession
    /\ lim = [cap |-> RaceQueueCap, tasks |-> RaceMaxTasks, cancels |-> 0,
              loops |-> RaceMaxLoops, kinds |-> TaskKinds,
              outcomes |-> {"ok", "err"}]

NextRace ==
    \/ SubmitTaskEnqueue
    \/ SubmitTaskNotifyQueued
    \/ SubmitTaskStart
    \/ SubmitTaskBusy
    \/ \E i \in DOMAIN loops : runAsyncRace(i)

SpecRace == InitRace /\ [][NextRace]_vars

\* ---------------------------------------------------------------- readFromInput
\* SpecInput: the session whose producer is the goroutine readFromInput,
\* started by NewSession: it reads one frame after the other from
\* Processor.Input and submits what the frame holds.  A payload is a
\* sequence of characters; the command names are spelled with one
\* character ("s" for summarize, "c" for cancel); a task carries the text
\* it was submitted with
InputQueueCap == 1

InputMaxFrames == 3

InputMaxLoops == 2

MaxPayloadLen == 2

TagUserText == "A"

\* tags of incoming frames: userText, and a tag that is not legal on input
InputTags == {TagUserText, TagAssistantText}

Chars == {"/", "s", "c"}

Payloads == UNION {[1..n -> Chars] : n \in 0..MaxPayloadLen}

SummarizeName == <<"s">>

CancelName == <<"c">>

\* string(value)
RECURSIVE Str(_)
Str(value) == IF value = <<>> THEN "" ELSE Head(value) \o Str(Tail(value))

\* writeError that writes nothing
writeError_Silent(out, msg) ==
    out

\* WriteTLV(TagError, msg); WriteTLV(TagStreamGap, "")
writeError(out, msg) ==
    WriteTLV(WriteTLV(out, TagError, msg, 0, 0, 0), TagStreamGap, "", 0, 0, 0)

\* SubmitTask(task), up to the return of queueTask
SubmitTaskOf(task) ==
    /\ IF Len(taskQueue) < lim.cap
       THEN /\ taskQueue' = Append(taskQueue, task)
            /\ sub' = [pc |-> "queued", task |-> task]
            /\ dropped' = dropped
       ELSE /\ taskQueue' = taskQueue
            /\ sub' = [pc |-> "full", task |-> task]
            /\ dropped' = dropped \cup {task.id}
    /\ UNCHANGED Output

\* submitPrompt: s.SubmitTask(UserPrompt(prompt))
submitPrompt(prompt) ==
    SubmitTaskOf([id |-> nextId, kind |-> "prompt", text |-> prompt])

\* Cancel, up to the call of CancelCurrent: if !s.inProgress, the error
\* "nothing to cancel" goes back to readFromInput, which writes it
CancelCommand ==
    /\ IF inProgress
       THEN /\ sub' = [pc |-> "cancelTest", task |-> NoTask]
            /\ Output' = Output
       ELSE /\ sub' = sub
            /\ Output' = writeError(Output, "nothing to cancel")
    /\ UNCHANGED <<taskQueue, dropped>>

\* submitCommand that sends every name but cancel through the task queue
submitCommand_QueuesUnknown(cmd) ==
    IF cmd = CancelName
    THEN CancelCommand
    ELSE SubmitTaskOf([id |-> nextId, kind |-> "summarize", text |-> cmd])

\* submitCommand: summarize becomes a task; every other name goes to
\* handleCommandSync, which knows cancel and reports any other name
submitCommand(cmd) ==
    IF cmd = SummarizeName
    THEN SubmitTaskOf([id |-> nextId, kind |-> "summarize", text |-> cmd])
    ELSE IF cmd = CancelName
    THEN CancelCommand
    ELSE /\ Output' = writeError(Output, "unknown cmd <" \o Str(cmd) \o ">")
         /\ UNCHANGED <<taskQueue, sub, dropped>>

\* readFromInput that passes the payload of a command on without removing
\* the leading "/"
readFromInput_KeepsSlash(tag, value) ==
    /\ sub.pc = "idle"
    /\ nextId <= lim.tasks
    /\ nextId' = nextId + 1
    /\ IF tag = TagUserText
       THEN IF Len(value) > 0 /\ value[1] = "/"
            THEN submitCommand(value)
            ELSE submitPrompt(value)
       ELSE /\ Output' = writeError(Output,
                             "Invalid input tag: " \o tag \o " (only "
                                 \o TagUserText \o " is allowed)")
            /\ UNCHANGED <<taskQueue, sub, dropped>>
    /\ UNCHANGED <<inProgress, cancelCurrent, canceled, Messages, TotalSpent,
                   ContextTokens, loops, canc, cancelLog, panicked, lim, codec>>

\* one iteration of readFromInput, for the frame (tag, value) that ReadTLV
\* returns, up to the first access to the session that another goroutine
\* can interfere with; nextId numbers the frames read
readFromInput(tag, value) ==
    /\ sub.pc = "idle"
    /\ nextId <= lim.tasks
    /\ nextId' = nextId + 1
    /\ IF tag = TagUserText
       THEN IF Len(value) > 0 /\ value[1] = "/"
            THEN submitCommand(Tail(value))
            ELSE submitPrompt(value)
       ELSE /\ Output' = writeError(Output,
                             "Invalid input tag: " \o tag \o " (only "
                                 \o TagUserText \o " is allowed)")
            /\ UNCHANGED <<taskQueue, sub, dropped>>
    /\ UNCHANGED <<inProgress, cancelCurrent, canceled, Messages, TotalSpent,
                   ContextTokens, loops, canc, cancelLog, panicked, lim, codec>>

\* Cancel, CancelCurrent: if s.cancelCurrent != nil; when it is nil the
\* error "nothing to cancel" goes back to readFromInput, which writes it
readFromInputCancelTest ==
    /\ sub.pc = "cancelTest"
    /\ IF cancelCurrent /= 0
       THEN /\ sub' = [pc |-> "cancelCall", task |-> NoTask,
                       h |-> cancelCurrent]
            /\ Output' = Output
       ELSE /\ sub' = [pc |-> "idle", task |-> NoTask]
            /\ Output' = writeError(Output, "nothing to cancel")
    /\ UNCHANGED <<taskQueue, inProgress, cancelCurrent, canceled, Messages,
                   TotalSpent, ContextTokens, loops, nextId, dropped, canc,
                   cancelLog, panicked, lim, codec>>

\* Cancel, CancelCurrent: s.cancelCurrent(); return true (the second load of
\* the field, as in CancelCurrentCall)
readFromInputCancelCall ==
    /\ sub.pc = "cancelCall"
    /\ \E h \in {sub.h, cancelCurrent} :
         IF h = 0
         THEN /\ panicked' = TRUE
              /\ sub' = [pc |-> "panic", task |-> NoTask]
              /\ canceled' = canceled
         ELSE /\ canceled' = canceled \cup {h}
              /\ sub' = [pc |-> "idle", task |-> NoTask]
              /\ panicked' = panicked
    /\ UNCHANGED <<taskQueue, inProgress, cancelCurrent, Messages, TotalSpent,
                   ContextTokens, Output, loops, nextId, dropped, canc,
                   cancelLog, lim, codec>>

\* ReadTLV returns an error: readFromInput returns
readFromInputClosed ==
    /\ sub.pc = "idle"
    /\ sub' = [pc |-> "closed", task |-> NoTask]
    /\ UNCHANGED <<taskQueue, inProgress, cancelCurrent, canceled, Messages,
                   TotalSpent, ContextTokens, Output, loops, nextId, dropped,
                   canc, cancelLog, panicked, lim, codec>>

InitInput ==
    /\ InitSession
    /\ lim = [cap |-> InputQueueCap, tasks |-> InputMaxFrames, cancels |-> 0,
              loops |-> InputMaxLoops, kinds |-> TaskKinds,
              outcomes |-> {"ok"}]

NextInput ==
    \/ \E tag \in InputTags, value \in Payloads : readFromInput(tag, value)
    \/ readFromInputCancelTest
    \/ readFromInputCancelCall
    \/ readFromInputClosed
    \/ SubmitTaskNotifyQueued
    \/ SubmitTaskStart
    \/ SubmitTaskBusy
    \/ \E i \in DOMAIN loops : runAsync(i)

SpecInput == InitInput /\ [][NextInput]_vars

\* SpecCommand: the session of SpecInput with room for two tasks in the
\* queue, so that two frames can be accepted before a goroutine has begun,
\* reading prompts and cancel commands
CommandQueueCap == 2

CommandMaxFrames == 3

CommandMaxLoops == 2

InitCommand ==
    /\ InitSession
    /\ lim = [cap |-> CommandQueueCap, tasks |-> CommandMaxFrames,
              cancels |-> 0, loops |-> CommandMaxLoops, kinds |-> TaskKinds,
              outcomes |-> {"ok"}]

\* the frames read are userText frames: the prompt "s" or the command cancel
NextCommand ==
    \/ \E value \in {<<"s">>, <<"/">> \o CancelName} :
          readFromInput(TagUserText, value)
    \/ readFromInputCancelTest
    \/ readFromInputCancelCall
    \/ readFromInputClosed
    \/ SubmitTaskNotifyQueued
    \/ SubmitTaskStart
    \/ SubmitTaskBusy
    \/ \E i \in DOMAIN loops : runAsync(i)

SpecCommand == InitCommand /\ [][NextCommand]_vars

\* ---------------------------------------------------------------- stream codec
\* SpecCodec: the frames as bytes.  A writer calls WriteTLV once per frame on
\* an Output that keeps every Write call; the transport hands the bytes
\* written to an Input in pieces; the read loop of the session calls ReadTLV
\* on that Input until it returns an error.  A byte is a number in 0..255
CodecMaxFrames == 2

CodecMaxLen == 2

MaxPieces == 3

\* tag bytes: 'E' and 't' of stream.go, and 'A' (userText)
TagErrorByte == 69

TagToolByte == 116

TagUserTextByte == 65

CodecTags == {TagErrorByte, TagToolByte, TagUserTextByte}

\* bytes of a payload: one that is no tag, and one that is the tag 't'
CodecBytes == {1, TagToolByte}

CodecPayloads == UNION {[1..n -> CodecBytes] : n \in 0..CodecMaxLen}

CodecFrames == [tag : CodecTags, value : CodecPayloads]

\* int32(n), for the n that fit in 31 bits
Int32(n) == n

\* binary.BigEndian.PutUint32(b, v): the four bytes of v, the highest first
PutUint32(v) ==
    <<(v \div 16777216) % 256, (v \div 65536) % 256, (v \div 256) % 256,
      v % 256>>

\* binary.BigEndian.Uint32(b), for the values below 2^31
Uint32(b) == ((b[1] * 256 + b[2]) * 256 + b[3]) * 256 + b[4]

\* int32(binary.BigEndian.Uint32(b)): a first byte of 128 or more makes the
\* number negative
Int32OfUint32(b) ==
    (IF b[1] >= 128 THEN b[1] - 256 ELSE b[1]) * 16777216
        + (b[2] * 256 + b[3]) * 256 + b[4]

\* the msg WriteTLV builds: make([]byte, 5+length), msg[0] = tag,
\* PutUint32(msg[1:], uint32(length)), copy(msg[5:], data)
WriteTLVMsg(tag, value) ==
    LET length == Int32(Len(value))
        lenBytes == PutUint32(length)
    IN  [k \in 1..(5 + length) |->
            IF k = 1 THEN tag
            ELSE IF k <= 5 THEN lenBytes[k - 1]
            ELSE value[k - 5]]

RECURSIVE Concat(_)
Concat(ss) == IF ss = <<>> THEN <<>> ELSE Head(ss) \o Concat(Tail(ss))

\* the Inputs: NopInput; clientInput, which hands out the messages of a
\* connection; StdinReader, a buffered reader that ends with io.EOF
InputKinds == {"nop", "client", "reader"}

InitCodec ==
    /\ InitFields
    /\ lim = [cap |-> 0, tasks |-> 0, cancels |-> 0, loops |-> 0,
              kinds |-> {}, outcomes |-> {}]
    /\ \E n \in 1..CodecMaxFrames, input \in InputKinds :
         \E frames \in [1..n -> CodecFrames] :
            codec = [pc |-> "write", frames |-> frames, input |-> input,
                     w |-> 0, writes |-> <<>>, sent |-> <<>>, ch |-> <<>>, buf |-> <<>>,
                     rd |-> [pc |-> "tag"], reads |-> 0, got |-> <<>>]

SessionUnchanged ==
    UNCHANGED <<taskQueue, inProgress, cancelCurrent, canceled, Messages,
                TotalSpent, ContextTokens, Output, loops, sub, nextId,
                dropped, canc, cancelLog, panicked, lim>>

\* WriteTLV that issues one Write for the header and one for the value
CodecWriteTLV_TwoWrites ==
    /\ codec.pc = "write"
    /\ codec.w < Len(codec.frames)
    /\ LET f == codec.frames[codec.w + 1]
           msg == WriteTLVMsg(f.tag, f.value)
       IN  codec' = [codec EXCEPT
                        !.w = @ + 1,
                        !.writes =
                           @ \o <<SubSeq(msg, 1, 5), SubSeq(msg, 6, Len(msg))>>]
    /\ SessionUnchanged

\* WriteTLV(output, tag, value) for the next frame: output.Write(msg)
CodecWriteTLV ==
    /\ codec.pc = "write"
    /\ codec.w < Len(codec.frames)
    /\ LET f == codec.frames[codec.w + 1]
       IN  codec' = [codec EXCEPT
                        !.w = @ + 1,
                        !.writes = Append(@, WriteTLVMsg(f.tag, f.value))]
    /\ SessionUnchanged

\* the ways to cut n bytes into at most MaxPieces pieces: the positions
\* after which a piece ends
CutSets(n) == {c \in SUBSET (1..(n - 1)) : Cardinality(c) < MaxPieces}

NthCut(c, k) == CHOOSE x \in c : Cardinality({y \in c : y < x}) = k - 1

Pieces(s, c) ==
    [k \in 1..(Cardinality(c) + 1) |->
        SubSeq(s, IF k = 1 THEN 1 ELSE NthCut(c, k - 1) + 1,
                  IF k = Cardinality(c) + 1 THEN Len(s) ELSE NthCut(c, k))]

\* the transport: the bytes written reach the Input as the messages of a
\* connection, or as the results of the reads of a pipe, cut anywhere
CodecSend ==
    /\ codec.pc = "write"
    /\ codec.w = Len(codec.frames)
    /\ \E c \in CutSets(Len(Concat(codec.writes))) :
          codec' = [codec EXCEPT !.pc = "read",
                                 !.sent = Pieces(Concat(codec.writes), c),
                                 !.ch = Pieces(Concat(codec.writes), c)]
    /\ SessionUnchanged

Min(a, b) == IF a < b THEN a ELSE b

\* n = copy(p, buf); buf = buf[n:]
CopyOut(ch, buf, k) ==
    [n |-> Min(k, Len(buf)), data |-> SubSeq(buf, 1, Min(k, Len(buf))),
     err |-> "nil", ch |-> ch, buf |-> SubSeq(buf, Min(k, Len(buf)) + 1, Len(buf))]

\* Input.Read(p) with len(p) = k, for an Input that holds the pieces ch and
\* the rest buf of the piece it is handing out
\*   NopInput.Read: return 0, io.EOF
\*   clientInput.Read: copy from i.buf when it holds bytes; else receive the
\*     next message and copy from it; (0, nil) when the channel is closed
\*   StdinReader.Read: bufio.Reader.Read, which returns (0, nil) for an empty
\*     p, else copies from its buffer, filled by one read of the file when it
\*     is empty; (0, io.EOF) at the end of the file
InputRead(input, ch, buf, k) ==
    CASE input = "nop" ->
            [n |-> 0, data |-> <<>>, err |-> "EOF", ch |-> ch, buf |-> buf]
      [] input = "client" ->
            IF Len(buf) > 0 THEN CopyOut(ch, buf, k)
            ELSE IF ch = <<>>
            THEN [n |-> 0, data |-> <<>>, err |-> "nil", ch |-> ch, buf |-> buf]
            ELSE CopyOut(Tail(ch), Head(ch), k)
      [] input = "reader" ->
            IF k = 0
            THEN [n |-> 0, data |-> <<>>, err |-> "nil", ch |-> ch, buf |-> buf]
            ELSE IF Len(buf) > 0 THEN CopyOut(ch, buf, k)
            ELSE IF ch = <<>>
            THEN [n |-> 0, data |-> <<>>, err |-> "EOF", ch |-> ch, buf |-> buf]
            ELSE CopyOut(Tail(ch), Head(ch), k)

\* the buffer of k bytes after a Read that stored data in it
Filled(data, k) == [j \in 1..k |-> IF j <= Len(data) THEN data[j] ELSE 0]

\* a read loop that goes on after the error of a Read
AfterRead_IgnoresError(r, rd) ==
    [codec EXCEPT !.ch = r.ch, !.buf = r.buf, !.reads = @ + 1, !.rd = rd]

\* the state of the read loop after a Read: readFromInput returns when
\* ReadTLV returns the error of the Read
AfterRead(r, rd) ==
    [codec EXCEPT !.ch = r.ch, !.buf = r.buf, !.reads = @ + 1,
                  !.rd = IF r.err /= "nil" THEN [pc |-> "returned"] ELSE rd]

\* ReadTLV: tagBuf := make([]byte, 1); _, err := input.Read(tagBuf)
ReadTLVTag ==
    /\ codec.pc = "read"
    /\ codec.rd.pc = "tag"
    /\ Len(codec.got) <= Len(codec.frames)
    /\ LET r == InputRead(codec.input, codec.ch, codec.buf, 1)
       IN  codec' = AfterRead(r, [pc |-> "len", tag |-> Filled(r.data, 1)[1]])
    /\ SessionUnchanged

\* ReadTLV that takes the lowest byte of the length first
ReadTLVLen_LittleEndian ==
    /\ codec.pc = "read"
    /\ codec.rd.pc = "len"
    /\ LET r == InputRead(codec.input, codec.ch, codec.buf, 4)
           b == Filled(r.data, 4)
       IN  codec' = AfterRead(r, [pc |-> "value", tag |-> codec.rd.tag,
                                  length |-> Uint32(<<b[4], b[3], b[2], b[1]>>)])
    /\ SessionUnchanged

\* ReadTLV: lenBuf := make([]byte, 4); _, err = input.Read(lenBuf);
\* length := binary.BigEndian.Uint32(lenBuf)
ReadTLVLen ==
    /\ codec.pc = "read"
    /\ codec.rd.pc = "len"
    /\ LET r == InputRead(codec.input, codec.ch, codec.buf, 4)
       IN  codec' = AfterRead(r, [pc |-> "value", tag |-> codec.rd.tag,
                                  length |-> Uint32(Filled(r.data, 4))])
    /\ SessionUnchanged

\* ReadTLV: valueBuf := make([]byte, length); _, err = input.Read(valueBuf);
\* return tag, string(valueBuf), nil.  The frame returned is kept as the
\* bytes the Read stored, and the number of bytes of valueBuf after them,
\* which are the zeros of make
ReadTLVValue ==
    /\ codec.pc = "read"
    /\ codec.rd.pc = "value"
    /\ LET r == InputRead(codec.input, codec.ch, codec.buf, codec.rd.length)
       IN  codec' = [AfterRead(r, [pc |-> "tag"]) EXCEPT
                        !.got = IF r.err /= "nil" THEN @
                                ELSE Append(@, [tag |-> codec.rd.tag,
                                                data |-> r.data,
                                                pad |-> codec.rd.length - r.n])]
    /\ SessionUnchanged

NextCodec ==
    \/ CodecWriteTLV
    \/ CodecSend
    \/ ReadTLVTag
    \/ ReadTLVLen
    \/ ReadTLVValue

SpecCodec == InitCodec /\ [][NextCodec]_vars

\* ---------------------------------------------------------------- decoder
\* SpecDecoder: the buffering decoder of the terminal Output.  The bytes
\* WriteTLV wrote reach terminalOutput.Write in pieces, one piece per call.
\* Two variants of processBuffer exist: the strict one takes every first
\* byte as a tag, the lenient one shows a byte that is no tag as it is
DecoderVariants == {"strict", "lenient"}

\* isValidTag: 'T', 't', 'R', 'E'
isValidTag(b) == b \in {84, TagToolByte, 82, TagErrorByte}

\* processBuffer: the loop "for len(w.buffer) >= 5", from the buffer and the
\* events dispatched so far to the buffer and the events it leaves.  An
\* event is a writeColored(tag, value) call or, in the lenient variant, a
\* byte appended to the display as it is.  A negative length that passes
\* the test of completeness makes the slice expression panic
RECURSIVE processBuffer(_, _, _)
processBuffer(variant, buffer, events) ==
    IF Len(buffer) < 5
    THEN [buffer |-> buffer, events |-> events, panic |-> FALSE]
    ELSE LET tag == buffer[1]
             length == Int32OfUint32(SubSeq(buffer, 2, 5))
         IN  IF variant = "lenient" /\ ~isValidTag(tag)
             THEN processBuffer(variant, Tail(buffer),
                                Append(events, [raw |-> tag]))
             ELSE IF Len(buffer) < 5 + length
             THEN [buffer |-> buffer, events |-> events, panic |-> FALSE]
             ELSE IF length < 0
             THEN [buffer |-> buffer, events |-> events, panic |-> TRUE]
             ELSE processBuffer(variant,
                                SubSeq(buffer, 6 + length, Len(buffer)),
                                Append(events,
                                       [tag |-> tag,
                                        value |-> SubSeq(buffer, 6, 5 + length)]))

InitDecoder ==
    /\ InitFields
    /\ lim = [cap |-> 0, tasks |-> 0, cancels |-> 0, loops |-> 0,
              kinds |-> {}, outcomes |-> {}]
    /\ \E n \in 1..CodecMaxFrames, variant \in DecoderVariants :
         \E frames \in [1..n -> CodecFrames] :
            codec = [pc |-> "write", frames |-> frames, variant |-> variant,
                     w |-> 0, writes |-> <<>>, sent |-> <<>>, ch |-> <<>>,
                     buffer |-> <<>>, events |-> <<>>, panic |-> FALSE]

\* terminalOutput.Write that decodes each piece on its own
terminalOutputWrite_ForgetsRest ==
    /\ codec.pc = "read"
    /\ codec.ch /= <<>>
    /\ ~codec.panic
    /\ LET r == processBuffer(codec.variant, Head(codec.ch), codec.events)
       IN  codec' = [codec EXCEPT !.ch = Tail(@), !.buffer = <<>>,
                                  !.events = r.events, !.panic = r.panic]
    /\ SessionUnchanged

\* terminalOutput.Write(p) for the next piece:
\* w.buffer = append(w.buffer, p...); w.processBuffer()
terminalOutputWrite ==
    /\ codec.pc = "read"
    /\ codec.ch /= <<>>
    /\ ~codec.panic
    /\ LET r == processBuffer(codec.variant, codec.buffer \o Head(codec.ch),
                              codec.events)
       IN  codec' = [codec EXCEPT !.ch = Tail(@), !.buffer = r.buffer,
                                  !.events = r.events, !.panic = r.panic]
    /\ SessionUnchanged

NextDecoder ==
    \/ CodecWriteTLV
    \/ CodecSend
    \/ terminalOutputWrite

SpecDecoder == InitDecoder /\ [][NextDecoder]_vars

\* ---------------------------------------------------------------- length field
\* SpecLength: the buffering decoder fed one header whose length field takes
\* values over the whole range of a uint32, followed by up to LengthMaxLen
\* bytes, in pieces cut anywhere
LengthMaxLen == 2

\* first byte of the length field: below and above the sign bit of an int32
LengthHighBytes == {0, 64, 128, 255}

LengthLowBytes == {0, 1, 255}

LengthFields ==
    {<<a, b, c, d>> : a \in LengthHighBytes, b \in LengthLowBytes,
                      c \in LengthLowBytes, d \in LengthLowBytes}

LengthStreams ==
    {<<TagToolByte>> \o len \o [k \in 1..n |-> 1] :
        len \in LengthFields, n \in 0..LengthMaxLen}

InitLength ==
    /\ InitFields
    /\ lim = [cap |-> 0, tasks |-> 0, cancels |-> 0, loops |-> 0,
              kinds |-> {}, outcomes |-> {}]
    /\ \E s \in LengthStreams, variant \in DecoderVariants :
         \E c \in CutSets(Len(s)) :
            codec = [pc |-> "read", variant |-> variant,
                     sent |-> Pieces(s, c), ch |-> Pieces(s, c),
                     buffer |-> <<>>, events |-> <<>>, panic |-> FALSE]

NextLength == terminalOutputWrite

SpecLength == InitLength /\ [][NextLength]_vars

\* ---------------------------------------------------------------- concurrent writers
\* SpecWriters: two goroutines call WriteTLV on the same terminalOutput: the
\* producer (writeNotify under SubmitTask, the error frames of
\* readFromInput) and the loop (the callbacks of the Agent, signalStart,
\* sendSystemInfo).  terminalOutput.Write holds no lock, so the statement
\* w.buffer = append(w.buffer, p...) is a load of the slice header, a copy
\* of p behind the bytes the header covers (in the same array when it has
\* room, in a new array when not), and a store of the new header, and the
\* steps of the two goroutines interleave.  mem holds the arrays allocated
\* so far; a slice header is an array (0 for the nil slice), the offset of
\* its first byte and its length
WritersMaxFrames == 2

Writers == {"producer", "loop"}

\* a text of twelve bytes
LongPayload == [k \in 1..12 |-> 1]

\* the producer writes error frames; the loop writes tool frames, one of
\* them long
WriterFrames(i) ==
    IF i = "producer"
    THEN [tag : {TagErrorByte}, value : CodecPayloads]
    ELSE [tag : {TagToolByte}, value : CodecPayloads \cup {LongPayload}]

InitWriters ==
    /\ InitFields
    /\ lim = [cap |-> 0, tasks |-> 0, cancels |-> 0, loops |-> 0,
              kinds |-> {}, outcomes |-> {}]
    /\ \E np \in 1..WritersMaxFrames, nl \in 1..WritersMaxFrames :
         \E fp \in [1..np -> WriterFrames("producer")],
            fl \in [1..nl -> WriterFrames("loop")] :
            codec = [pc |-> "writers",
                     th |-> [i \in Writers |->
                                [pc |-> "load", k |-> 0,
                                 frames |-> IF i = "producer" THEN fp ELSE fl]],
                     mem |-> <<>>, buffer |-> [id |-> 0, off |-> 0, len |-> 0],
                     events |-> <<>>, seen |-> <<>>]

\* the bytes of the slice h
SliceBytes(mem, h) ==
    IF h.id = 0 THEN <<>> ELSE SubSeq(mem[h.id], h.off + 1, h.off + h.len)

\* cap(h)
SliceCap(mem, h) == IF h.id = 0 THEN 0 ELSE Len(mem[h.id]) - h.off

\* the capacity append gives the new array: the length needed when it is
\* more than twice the old capacity, else twice the old capacity, rounded
\* up to a size class of the allocator
GrowCap(oldCap, newLen) ==
    LET want == IF newLen > 2 * oldCap THEN newLen ELSE 2 * oldCap
    IN  CHOOSE c \in {8, 16, 24, 32, 48, 64} :
            /\ c >= want
            /\ \A d \in {8, 16, 24, 32, 48, 64} : d >= want => c <= d

\* append, first part: the slice header of w.buffer is loaded
terminalOutputWriteLoad(i) ==
    /\ codec.th[i].pc = "load"
    /\ codec.th[i].k < Len(codec.th[i].frames)
    /\ codec' = [codec EXCEPT !.th[i] =
                    [pc |-> "copy", k |-> @.k, frames |-> @.frames,
                     h |-> codec.buffer]]
    /\ SessionUnchanged

\* append, second part: with room in the array, p is copied behind the
\* bytes of the slice; without room, the bytes of the slice and p are
\* copied to a new array
terminalOutputWriteCopy(i) ==
    /\ codec.th[i].pc = "copy"
    /\ LET t == codec.th[i]
           f == t.frames[t.k + 1]
           p == WriteTLVMsg(f.tag, f.value)
           h == t.h
           newLen == h.len + Len(p)
           old == SliceBytes(codec.mem, h)
       IN  IF newLen <= SliceCap(codec.mem, h)
           THEN codec' = [codec EXCEPT
                            !.mem[h.id] =
                               [j \in 1..Len(@) |->
                                   IF j > h.off + h.len /\ j <= h.off + newLen
                                   THEN p[j - h.off - h.len] ELSE @[j]],
                            !.th[i].pc = "store",
                            !.th[i].h.len = newLen]
           ELSE codec' = [codec EXCEPT
                            !.mem = Append(@,
                               [j \in 1..GrowCap(SliceCap(codec.mem, h), newLen) |->
                                   IF j <= h.len THEN old[j]
                                   ELSE IF j <= newLen THEN p[j - h.len]
                                   ELSE 0]),
                            !.th[i].pc = "store",
                            !.th[i].h = [id |-> Len(codec.mem) + 1, off |-> 0,
                                         len |-> newLen]]
    /\ SessionUnchanged

\* append, third part, and processBuffer: the new header is stored in
\* w.buffer, and the decoder takes the frames it finds at its front
terminalOutputWriteStore(i) ==
    /\ codec.th[i].pc = "store"
    /\ LET t == codec.th[i]
           bytes == SliceBytes(codec.mem, t.h)
           r == processBuffer("strict", bytes, codec.events)
           taken == t.h.len - Len(r.buffer)
       IN  codec' = [codec EXCEPT
                        !.buffer = [id |-> t.h.id, off |-> t.h.off + taken,
                                    len |-> t.h.len - taken],
                        !.events = r.events,
                        !.seen = @ \o SubSeq(bytes, 1, taken),
                        !.th[i] = [pc |-> IF t.k + 1 < Len(t.frames)
                                          THEN "load" ELSE "done",
                                   k |-> t.k + 1, frames |-> t.frames]]
    /\ SessionUnchanged

NextWriters ==
    \E i \in Writers :
        \/ terminalOutputWriteLoad(i)
        \/ terminalOutputWriteCopy(i)
        \/ terminalOutputWriteStore(i)

SpecWriters == InitWriters /\ [][NextWriters]_vars

\* ---------------------------------------------------------------- external editor
\* SpecEditor: the Terminal model of the TUI and its external editor.
\* Ctrl+O starts the editor on the current input, the program is suspended
\* while the editor runs, and the editor's end comes back as an
\* editorFinishedMsg; between editor runs the user types into the input
\* line.  Text is a sequence of one-character strings and of literal pieces
TermMaxKeys == 3

TermMaxEdits == 2

KeyRunes == {"a", "["}

Whitespace == {" ", "\n"}

LongWord == [i \in 1..21 |-> "a"]

\* what the temporary file holds when the editor exits normally
EditorContents ==
    {<<>>, <<"a">>, <<" ", "a", "\n", "a", " ">>, <<"\n">>, LongWord}

EditorErrors == {"exit status 1", "no editor found (tried: vim, vi, nano)"}

\* the messages openEditor produces: content "" with an error, or the
\* content of the file with no error
EditorMsgs ==
    {[content |-> <<>>, err |-> e] : e \in EditorErrors}
    \cup {[content |-> c, err |-> "nil"] : c \in EditorContents}

\* strings.Count(content, "\n")
RECURSIVE CountNewlines(_)
CountNewlines(s) ==
    IF s = <<>> THEN 0
    ELSE (IF Head(s) = "\n" THEN 1 ELSE 0) + CountNewlines(Tail(s))

\* strings.Fields(content)[0]: the first run of non-space characters, <<>>
\* if there is none
RECURSIVE FirstField(_)
FirstField(s) ==
    IF s = <<>> THEN <<>>
    ELSE IF Head(s) \in Whitespace THEN FirstField(Tail(s))
    ELSE LET RECURSIVE Word(_)
             Word(t) == IF t = <<>> \/ Head(t) \in Whitespace THEN <<>>
                        ELSE <<Head(t)>> \o Word(Tail(t))
         IN  Word(s)

\* %d of a line count
Digits == <<"0", "1", "2", "3", "4", "5", "6", "7", "8", "9">>

RECURSIVE Itoa(_)
Itoa(n) == IF n < 10 THEN <<Digits[n + 1]>>
           ELSE Itoa(n \div 10) \o <<Digits[(n % 10) + 1]>>

\* fmt.Sprintf("[%d lines] %s (press Enter to send)", lineCount, previewText)
EditorPreview(content) ==
    LET lineCount == CountNewlines(content) + 1
        first == FirstField(content)
        previewText == IF Len(first) > 20
                       THEN SubSeq(first, 1, 20) \o <<"...">>
                       ELSE IF first /= <<>> THEN first
                       ELSE <<"(empty)">>
    IN  <<"[">> \o Itoa(lineCount) \o <<" lines] ">> \o previewText
        \o <<" (press Enter to send)">>

\* errorStyle.Render(fmt.Sprintf("Editor error: %v", err))
EditorErrorLine(err) == [style |-> "error", text |-> <<"Editor error: ", err>>]

\* NewTerminal: empty input line, no editor content, empty display buffer
InitEditor ==
    /\ InitFields
    /\ lim = [cap |-> 0, tasks |-> 0, cancels |-> 0, loops |-> 0,
              kinds |-> {}, outcomes |-> {}]
    /\ codec = [pc |-> "input", input |-> <<>>, editorContent |-> <<>>,
                display |-> <<>>, file |-> <<>>, keys |-> 0, edits |-> 0]

\* case tea.KeyCtrlO: return m, m.openEditor(); the temporary file gets
\* getInputForEditor()
KeyCtrlO ==
    /\ codec.pc = "input"
    /\ codec.edits < TermMaxEdits
    /\ codec' = [codec EXCEPT !.pc = "editing",
                              !.file = IF codec.editorContent /= <<>>
                                       THEN codec.editorContent
                                       ELSE codec.input,
                              !.edits = @ + 1]
    /\ SessionUnchanged

\* any other key: m.input.Update(msg), then the editor content is dropped
\* if the user changed an input line that is not a preview
KeyTyped(newValue) ==
    /\ codec.pc = "input"
    /\ codec.keys < TermMaxKeys
    /\ LET oldValue == codec.input IN
       codec' = [codec EXCEPT
                   !.input = newValue,
                   !.editorContent =
                       IF /\ codec.editorContent /= <<>>
                          /\ oldValue /= newValue
                          /\ ~(oldValue /= <<>> /\ Head(oldValue) = "[")
                       THEN <<>> ELSE @,
                   !.keys = @ + 1]
    /\ SessionUnchanged

\* a rune appended at the cursor, or backspace
handleKeyMsg ==
    \/ \E r \in KeyRunes : KeyTyped(Append(codec.input, r))
    \/ KeyTyped(IF codec.input = <<>> THEN <<>>
                ELSE SubSeq(codec.input, 1, Len(codec.input) - 1))

\* case editorFinishedMsg that also forgets the text on an error
UpdateEditorFinished_ResetsOnError(msg) ==
    /\ codec.pc = "editing"
    /\ codec' =
         IF msg.err /= "nil"
         THEN [codec EXCEPT !.pc = "input", !.input = <<>>,
                            !.editorContent = <<>>,
                            !.display = Append(@, EditorErrorLine(msg.err))]
         ELSE IF msg.content /= <<>>
         THEN [codec EXCEPT !.pc = "input",
                            !.editorContent = msg.content,
                            !.input = EditorPreview(msg.content)]
         ELSE [codec EXCEPT !.pc = "input"]
    /\ SessionUnchanged

\* Terminal.Update, case editorFinishedMsg
UpdateEditorFinished(msg) ==
    /\ codec.pc = "editing"
    /\ codec' =
         IF msg.err /= "nil"
         THEN [codec EXCEPT !.pc = "input",
                            !.display = Append(@, EditorErrorLine(msg.err))]
         ELSE IF msg.content /= <<>>
         THEN [codec EXCEPT !.pc = "input",
                            !.editorContent = msg.content,
                            !.input = EditorPreview(msg.content)]
         ELSE [codec EXCEPT !.pc = "input"]
    /\ SessionUnchanged

NextEditor ==
    \/ KeyCtrlO
    \/ handleKeyMsg
    \/ \E msg \in EditorMsgs : UpdateEditorFinished(msg)

SpecEditor == InitEditor /\ [][NextEditor]_vars

\* ---------------------------------------------------------------- history for the Agent
\* SpecHistory: the producer and the processing loops, with the first two
\* statements of Session.ProcessPrompt as two steps: the append of the user
\* message, then the copy of s.Messages[:len(s.Messages)-1] into
\* messagesForAPI.  The loop keeps the history it found (before) and the
\* list it passes to the Agent (api)
HistQueueCap == 2

HistMaxTasks == 3

HistMaxLoops == 2

\* s.signalPromptStart(prompt); ProcessPrompt:
\* s.Messages = append(s.Messages, fantasy.NewUserMessage(prompt))
ProcessPromptAppend(i) ==
    /\ loops[i].pc = "signal"
    /\ Output' = signalStart(Output, loops[i].task)
    /\ Messages' = Append(Messages, Msg("user", "prompt", loops[i].task.id))
    /\ loops' = [loops EXCEPT ![i] = [pc |-> "copy", task |-> loops[i].task,
                                      before |-> Messages, api |-> <<>>]]
    /\ UNCHANGED <<taskQueue, inProgress, cancelCurrent, canceled, TotalSpent,
                   ContextTokens>>
    /\ LoopVarsUnchanged

\* messagesForAPI := make([]fantasy.Message, len(s.Messages)-1);
\* copy(messagesForAPI, s.Messages[:len(s.Messages)-1]); the Agent call
\* begins with this list
ProcessPromptCopy(i) ==
    /\ loops[i].pc = "copy"
    /\ loops' = [loops EXCEPT ![i].pc = "agent",
                              ![i].api = SubSeq(Messages, 1,
                                                Len(Messages) - 1)]
    /\ UNCHANGED <<taskQueue, inProgress, cancelCurrent, canceled, Messages,
                   TotalSpent, ContextTokens, Output>>
    /\ LoopVarsUnchanged

runAsyncHistory(i) ==
    \/ runAsyncBegin(i)
    \/ getQueuedTask(i)
    \/ runAsyncSetCancel(i)
    \/ ProcessPromptAppend(i)
    \/ ProcessPromptCopy(i)
    \/ AgentReturn(i)
    \/ runAsyncCheckCanceled(i)
    \/ runAsyncClearCancel(i)
    \/ runAsyncExit(i)

InitHistory ==
    /\ InitSession
    /\ lim = [cap |-> HistQueueCap, tasks |-> HistMaxTasks, cancels |-> 0,
              loops |-> HistMaxLoops, kinds |-> {"prompt"},
              outcomes |-> {"ok", "err"}]

NextHistory ==
    \/ SubmitTaskEnqueue
    \/ SubmitTaskNotifyQueued
    \/ SubmitTaskStart
    \/ SubmitTaskBusy
    \/ \E i \in DOMAIN loops : runAsyncHistory(i)

SpecHistory == InitHistory /\ [][NextHistory]_vars

\* ---------------------------------------------------------------- observations
\* the promptStart frames on Output, in write order, as task ids
StartedSeq ==
    LET ps == SelectSeq(Output, LAMBDA f : f.tag = TagPromptStart)
    IN  [k \in DOMAIN ps |-> ps[k].id]

Started(t) == \E k \in DOMAIN StartedSeq : StartedSeq[k] = t

\* the tasks whose enqueue succeeded; one producer numbers its calls, so
\* their order of acceptance is the order of their ids
AcceptedIds == {t \in 1..(nextId - 1) : t \notin dropped}

Accepted(t) == t \in AcceptedIds

KthAccepted(k) ==
    CHOOSE t \in AcceptedIds : Cardinality({u \in AcceptedIds : u < t}) = k - 1

CountTag(out, tag) == Len(SelectSeq(out, LAMBDA f : f.tag = tag))

\* the runAsync goroutines that have begun and not returned
ActiveLoops == {i \in DOMAIN loops : loops[i].pc \notin {"spawned", "done"}}

\* the goroutines that are inside the Agent call
LoopsInAgent == {i \in DOMAIN loops : loops[i].pc = "agent"}

\* ---------------------------------------------------------------- claims
\* C1: in every reachable state at most one runAsync loop is active and at
\* most one task is being run against the Agent.
C1_OneLoopOneTask ==
    /\ Cardinality(ActiveLoops) <= 1
    /\ Cardinality(LoopsInAgent) <= 1

\* C2: tasks are started in the order in which SubmitTask accepted them: the
\* sequence of promptStart frames on Output is a prefix of the sequence of
\* accepted submissions.
C2_StartedInAcceptanceOrder ==
    /\ Len(StartedSeq) <= Cardinality(AcceptedIds)
    /\ \A k \in DOMAIN StartedSeq : StartedSeq[k] = KthAccepted(k)

\* C3: every task accepted by SubmitTask is eventually started by the
\* processing loop (its promptStart frame is written), every Agent call
\* returning.
C3_AcceptedEventuallyStarted ==
    \A t \in 1..SmallMaxTasks : [](Accepted(t) => <>Started(t))

\* C4: when CancelCurrent cancels a task, the tasks that are in the queue at
\* that moment are started afterwards in their queue order (the order part
\* of the claim; that all of them are started is its liveness part).
C4_QueuedRunInOrderAfterCancel ==
    \A e \in DOMAIN cancelLog :
        cancelLog[e].ret =>
            \A a, b \in DOMAIN cancelLog[e].q :
                (a < b /\ Started(cancelLog[e].q[b])) =>
                    \E ka, kb \in DOMAIN StartedSeq :
                        /\ StartedSeq[ka] = cancelLog[e].q[a]
                        /\ StartedSeq[kb] = cancelLog[e].q[b]
                        /\ ka < kb

\* the step in which a CancelCurrent call returns
CancelReturns == Len(cancelLog') = Len(cancelLog) + 1

LastCancel == cancelLog[Len(cancelLog)]

\* C5: CancelCurrent returns true if and only if a task is in flight: a call
\* that returns false is made while no task is inside the Agent call, and a
\* call finds a handle to invoke only while a goroutine holds a task.
C5_TrueIffInFlight ==
    [][/\ (CancelReturns /\ ~LastCancel'.ret) => RunningTasks = {}
       /\ (canc.pc = "idle" /\ canc'.pc = "call") => HeldTasks /= {}]_vars

\* C6: CancelCurrent never panics, and a call made while the cancellation of
\* a task is still propagating (its context is canceled, the Agent call has
\* not returned) returns false.
C6_SecondCancelFalse ==
    [][/\ ~panicked'
       /\ CancelReturns =>
             ~(/\ LastCancel'.ret
               /\ LastCancel'.h \in canceled
               /\ LastCancel'.h \in RunningTasks)]_vars

\* C7: history holds at most one synthetic "The user canceled." message per
\* canceled task, and what follows that message is the user message of the
\* next prompt.
C7_CancelClosesTurn ==
    \A k \in DOMAIN Messages :
        Messages[k].what = "canceled" =>
            /\ \A j \in DOMAIN Messages :
                  (Messages[j].what = "canceled"
                   /\ Messages[j].id = Messages[k].id) => j = k
            /\ k < Len(Messages) => Messages[k + 1].role = "user"

C9_InProgressTracksLoop ==
    /\ LoopsInAgent /= {} => inProgress
    /\ ActiveLoops = {} => ~inProgress

\* C10: a SubmitTask call that finds the queue full never blocks, writes
\* exactly one notify frame ("[Busy]") and no error frame, starts no loop
\* and leaves queue, history and usage as they are; the task it drops is
\* never queued, held, started or put into history.
C10_FullStep ==
    (sub.pc = "idle" /\ sub'.pc = "full") =>
        /\ Len(taskQueue) = lim.cap
        /\ UNCHANGED <<taskQueue, Messages, TotalSpent, ContextTokens,
                       Output, loops, inProgress, cancelCurrent>>

C10_BusyStep ==
    (sub.pc = "full" /\ sub' /= sub) =>
        /\ sub'.pc = "idle"
        /\ CountTag(Output', TagNotify) = CountTag(Output, TagNotify) + 1
        /\ CountTag(Output', TagError) = CountTag(Output, TagError)
        /\ CountTag(Output', TagPromptStart) = CountTag(Output, TagPromptStart)
        /\ Len(Output') = Len(Output) + 3
        /\ Output'[Len(Output) + 2] = Frame(TagNotify, "[Busy]", 0, 0, 0)
        /\ UNCHANGED <<taskQueue, Messages, TotalSpent, ContextTokens, loops,
                       inProgress, cancelCurrent>>

C10_DroppedNeverRun ==
    \A t \in dropped :
        /\ ~Started(t)
        /\ t \notin HeldTasks
        /\ \A k \in DOMAIN taskQueue : taskQueue[k].id /= t
        /\ \A k \in DOMAIN Messages : Messages[k].id /= t

C10_NeverBlocks == sub.pc = "full" => ENABLED SubmitTaskBusy

C10_QueueFullDropsTask ==
    /\ [](C10_DroppedNeverRun /\ C10_NeverBlocks)
    /\ [][C10_FullStep /\ C10_BusyStep]_vars

\* C10 witness: a SubmitTask call has found the queue full and has returned
C10_Witness ==
    /\ sub.pc = "idle"
    /\ dropped /= {}
    /\ \E k \in DOMAIN Output : Output[k].msg = "[Busy]"

\* the notify frames on Output that carry msg
CountNotify(out, msg) ==
    Len(SelectSeq(out, LAMBDA f : f.tag = TagNotify /\ f.msg = msg))

\* C11: with queue capacity N and one task running and not finishing, the
\* first N further SubmitTask calls are accepted without a busy notify, and
\* once N+1 further calls have returned there is exactly one busy notify,
\* written by the last call, the last submission is the only one dropped,
\* and the queue holds the N accepted tasks in submission order.
C11_FillQueue ==
    /\ nextId <= lim.cap + 2 =>
          /\ dropped = {}
          /\ CountNotify(Output, "[Busy]") = 0
    /\ (sub.pc = "idle" /\ nextId = lim.cap + 3) =>
          /\ RunningTasks = {1}
          /\ dropped = {lim.cap + 2}
          /\ QueuedIds = [k \in 1..lim.cap |-> k + 1]
          /\ CountNotify(Output, "[Busy]") = 1
          /\ CountNotify(Output, "[Queued]") = lim.cap
          /\ Output[Len(Output) - 1] = Frame(TagNotify, "[Busy]", 0, 0, 0)
          /\ CountTag(Output, TagError) = 0

\* C11 witness: the task is still running, N+1 further calls have returned
\* and the queue is full
C11_Witness ==
    /\ sub.pc = "idle"
    /\ nextId = lim.cap + 3
    /\ Len(taskQueue) = lim.cap
    /\ RunningTasks = {1}
    /\ dropped /= {}

\* no runAsync goroutine exists that has not returned
SessionIdle == \A i \in DOMAIN loops : loops[i].pc = "done"

\* C12: a SubmitTask call whose enqueue succeeded writes exactly one notify
\* frame ("[Queued]") and starts no loop while a task is in flight (a loop
\* holds a dequeued task); on an idle session it writes nothing and starts
\* one processing loop.
C12_NotifyStep ==
    (sub.pc = "queued" /\ sub'.pc = "start") =>
        /\ HeldTasks /= {} =>
              /\ Len(Output') = Len(Output) + 3
              /\ CountNotify(Output', "[Queued]")
                    = CountNotify(Output, "[Queued]") + 1
        /\ SessionIdle => Output' = Output

C12_StartStep ==
    (sub.pc = "start" /\ sub'.pc = "idle") =>
        /\ HeldTasks /= {} => loops' = loops
        /\ SessionIdle =>
              loops' = Append(loops, [pc |-> "spawned", task |-> NoTask])

C12_QueuedNotifyOrLoopStart == [][C12_NotifyStep /\ C12_StartStep]_vars

\* the step in which the Agent call of loop i returns an error
AgentFails(i) ==
    /\ loops[i].pc = "agent"
    /\ loops'[i].pc = "check"
    /\ \E usage \in AgentUsages :
         IF loops[i].task.kind = "prompt"
         THEN ProcessPromptFinish(i, "err", usage)
         ELSE SummarizeFinish(i, "err", usage)

\* C13: when the Agent's streaming call of a task fails, exactly one error
\* frame is written to Output, the loop does not crash, and it goes on
\* with the same task towards the next dequeue.
C13_AgentErrorFrame ==
    [][\A i \in DOMAIN loops :
          AgentFails(i) =>
              /\ CountTag(Output', TagError) = CountTag(Output, TagError) + 1
              /\ loops'[i].task = loops[i].task
              /\ ~panicked']_vars

\* the step in which loop i completes its task: the call of ProcessPrompt
\* or handleCommandSync returns to runAsync
TaskCompletes(i) == loops[i].pc = "agent" /\ loops'[i].pc = "check"

\* C14: for every task the loop completes (prompt or summarize, successful
\* or failed) exactly one system frame is written, carrying contextTokens
\* and the total tokens as they are after the task's usage has been
\* applied; no other step writes a system frame.
C14_OneSystemFramePerTask ==
    [][/\ \A i \in DOMAIN loops :
             TaskCompletes(i) =>
                 /\ CountTag(Output', TagSystem)
                       = CountTag(Output, TagSystem) + 1
                 /\ Output'[Len(Output')]
                       = Frame(TagSystem, "", loops[i].task.id,
                               ContextTokens', TotalSpent'.TotalTokens)
       /\ (~ \E i \in DOMAIN loops : TaskCompletes(i)) =>
             CountTag(Output', TagSystem) = CountTag(Output, TagSystem)]_vars

\* C15: the frames of a task appear on Output in the order promptStart,
\* then its text/reasoning/tool frames, then its system frame: a task has
\* at most one promptStart and one system frame, none of its content
\* frames precedes its promptStart or follows its system frame, and a
\* prompt task that has returned from ProcessPrompt has its system frame.
C15_TaskFrameOrder ==
    \A t \in 1..(nextId - 1) :
        LET P == PosOf(t, {TagPromptStart})
            S == PosOf(t, {TagSystem})
            C == PosOf(t, ContentTags)
        IN  /\ Cardinality(P) <= 1
            /\ Cardinality(S) <= 1
            /\ (C \cup S /= {}) => P /= {}
            /\ \A p \in P, c \in C : p < c
            /\ \A c \in C, s \in S : c < s
            /\ \A p \in P, s \in S : p < s
            /\ \A i \in DOMAIN loops :
                  (/\ loops[i].task = [id |-> t, kind |-> "prompt"]
                   /\ loops[i].pc \in {"check", "clear"}) =>
                      /\ S /= {}
                      /\ \A p \in P : Output[p].msg = ""

\* C15 witness: a prompt task has written its promptStart frame, text and
\* tool frames, and its system frame
C15_Witness ==
    \E i \in DOMAIN loops :
        /\ loops[i].task.kind = "prompt"
        /\ loops[i].pc = "check"
        /\ PosOf(loops[i].task.id, {TagPromptStart}) /= {}
        /\ PosOf(loops[i].task.id, {TagAssistantText}) /= {}
        /\ PosOf(loops[i].task.id, {TagTool}) /= {}
        /\ PosOf(loops[i].task.id, {TagSystem}) /= {}

\* C16: TotalSpent.TotalTokens never decreases, whatever sequence of
\* prompts, summarize commands and Agent errors the session goes through.
C16_TotalTokensMonotonic ==
    [][TotalSpent'.TotalTokens >= TotalSpent.TotalTokens]_vars

\* C17: every prompt task the loop completes, a canceled one included, adds
\* the tokens the Agent consumed for it (one of AgentUsages) to TotalSpent
\* and increases ContextTokens by the task's total tokens.
C17_UsageAddedPerPrompt ==
    [][\A i \in DOMAIN loops :
          (TaskCompletes(i) /\ loops[i].task.kind = "prompt") =>
              \E usage \in AgentUsages :
                  /\ TotalSpent' = AddUsage(TotalSpent, usage)
                  /\ ContextTokens' = ContextTokens + usage.TotalTokens]_vars

\* the step in which the summarize command of loop i returns without error:
\* Summarize has stored its results and written its system frame
SummarizeSucceeds(i) ==
    /\ loops[i].pc \in {"agent", "account"}
    /\ loops'[i].pc = "check"
    /\ loops[i].task.kind = "summarize"
    /\ Output' /= Output

\* C18: a successful summarize command replaces the whole history by
\* exactly one message, the summary, sets ContextTokens to the output
\* tokens of the summary call and adds the usage of the call to TotalSpent.
C18_SummarizeReplacesHistory ==
    [][\A i \in DOMAIN loops :
          SummarizeSucceeds(i) =>
              /\ Len(Messages') = 1
              /\ Messages'[1].what = "summary"
              /\ Messages'[1].id = loops[i].task.id
              /\ \E usage \in AgentUsages :
                    /\ ContextTokens' = usage.OutputTokens
                    /\ TotalSpent' = AddUsage(TotalSpent, usage)]_vars

\* C19: a command task goes through the queue and the loop as a prompt
\* does.  Whatever the kind of the task: the enqueue succeeds exactly when
\* the queue has room and puts the task at the tail; the call writes the
\* "[Queued]" notify exactly when inProgress is set; a loop takes the task
\* only from the head of the queue; the start writes gap, promptStart, gap
\* (the payload of a command is "/" + its name); a CancelCurrent call that
\* returns true has canceled the context of the task whose handle it
\* called; the loop that finds its task canceled appends the cancel
\* message, clears the handle and goes on to the next dequeue.
C19_EnqueueStep ==
    (sub.pc = "idle" /\ sub'.pc /= "idle") =>
        IF Len(taskQueue) < lim.cap
        THEN sub'.pc = "queued" /\ taskQueue' = Append(taskQueue, sub'.task)
        ELSE sub'.pc = "full" /\ taskQueue' = taskQueue

C19_NotifyStep ==
    (sub.pc = "queued" /\ sub'.pc = "start") =>
        Output' = IF inProgress THEN writeNotify(Output, "[Queued]")
                  ELSE Output

C19_LoopSteps ==
    \A i \in DOMAIN loops :
        /\ (loops[i].pc = "dequeue" /\ loops'[i].pc = "setCancel") =>
              /\ loops'[i].task = Head(taskQueue)
              /\ taskQueue' = Tail(taskQueue)
        /\ (loops[i].pc = "signal" /\ loops'[i].pc = "agent") =>
              Output' = writeGapped(Output, TagPromptStart,
                                    IF loops[i].task.kind = "summarize"
                                    THEN "/summarize" ELSE "",
                                    loops[i].task.id)
        /\ (loops[i].pc = "check" /\ loops'[i] /= loops[i]) =>
              /\ loops'[i] = [loops[i] EXCEPT !.pc = "clear"]
              /\ loops[i].task.id \in canceled =>
                    Messages' = Append(Messages,
                                       Msg("assistant", "canceled",
                                           loops[i].task.id))
        /\ (loops[i].pc = "clear" /\ loops'[i] /= loops[i]) =>
              /\ loops'[i].pc = "dequeue"
              /\ cancelCurrent' = 0

C19_CancelStep ==
    (CancelReturns /\ LastCancel'.ret) =>
        /\ canceled' = canceled \cup {LastCancel'.h}
        /\ UNCHANGED <<taskQueue, loops, Messages, Output>>

C20_UserTextDispatch ==
    [][\A value \in Payloads :
          readFromInput(TagUserText, value) =>
              /\ Len(taskQueue') <= Len(taskQueue) + 1
              /\ IF value = <<>> \/ Head(value) /= "/"
                 THEN /\ sub'.pc \in {"queued", "full"}
                      /\ sub'.task = [id |-> nextId, kind |-> "prompt",
                                      text |-> value]
                      /\ Output' = Output
                 ELSE LET cmd == SubSeq(value, 2, Len(value)) IN
                      /\ sub'.task.kind /= "prompt"
                      /\ cmd = SummarizeName =>
                            /\ sub'.pc \in {"queued", "full"}
                            /\ sub'.task = [id |-> nextId,
                                            kind |-> "summarize",
                                            text |-> cmd]
                            /\ Output' = Output
                      /\ cmd = CancelName =>
                            /\ sub'.task = NoTask
                            /\ taskQueue' = taskQueue
                            /\ inProgress => sub'.pc = "cancelTest"
                      /\ cmd \notin {SummarizeName, CancelName} =>
                            /\ sub' = sub
                            /\ taskQueue' = taskQueue
                            /\ Output' = writeError(Output,
                                  "unknown cmd <" \o Str(cmd) \o ">")]_vars

\* C20 witness: a prompt whose text holds a "/" after its first character
\* is running as it was sent, and the frame "/s" has been submitted as the
\* command s
C20_Witness ==
    /\ sub.pc = "queued"
    /\ sub.task = [id |-> 2, kind |-> "summarize", text |-> <<"s">>]
    /\ \E i \in DOMAIN loops :
          loops[i].task = [id |-> 1, kind |-> "prompt", text |-> <<"s", "/">>]

\* the text of the error frame that answers an incoming frame with this tag
InvalidTagMsg(tag) ==
    "Invalid input tag: " \o tag \o " (only " \o TagUserText \o " is allowed)"

\* C21: a frame whose tag is not userText produces exactly one error frame,
\* which names the offending tag and the userText tag (and the gap frame
\* that closes it); no task is submitted, the queue, the history, the usage
\* counters and inProgress stay as they are, and readFromInput is back at
\* its next read.
C21_InvalidTagRejected ==
    [][\A tag \in InputTags \ {TagUserText}, value \in Payloads :
          readFromInput(tag, value) =>
              /\ Output' = Output \o <<Frame(TagError, InvalidTagMsg(tag), 0, 0, 0),
                                       Frame(TagStreamGap, "", 0, 0, 0)>>
              /\ CountTag(Output', TagError) = CountTag(Output, TagError) + 1
              /\ CountTag(Output', TagPromptStart)
                    = CountTag(Output, TagPromptStart)
              /\ UNCHANGED <<taskQueue, Messages, TotalSpent, ContextTokens,
                             inProgress, cancelCurrent, loops, dropped>>
              /\ sub' = sub
              /\ sub'.pc = "idle"]_vars

\* C21 witness: the first frame read had an illegal tag and was answered by
\* the error frame; the second frame, a prompt, has been read after it and
\* is queued
C21_Witness ==
    /\ Len(Output) >= 2
    /\ Output[1] = Frame(TagError, InvalidTagMsg(TagAssistantText), 0, 0, 0)
    /\ Output[2].tag = TagStreamGap
    /\ sub.pc = "queued"
    /\ sub.task.id = 2
    /\ sub.task.kind = "prompt"

\* the command names the session does not know
UnknownCommands ==
    {cmd \in Payloads :
        /\ Len(cmd) < MaxPayloadLen
        /\ cmd \notin {SummarizeName, CancelName}}

\* the tasks that are queued, in the hands of the producer or in the hands
\* of a runAsync goroutine
TasksAnywhere ==
    {taskQueue[k].id : k \in DOMAIN taskQueue} \cup {sub.task.id} \cup HeldTasks

\* C22: a command frame with an unknown name produces exactly one error
\* frame (and the gap frame that closes it); the task queue, inProgress,
\* cancelCurrent, the history and the usage counters stay as they are, no
\* task stands for the frame anywhere and no promptStart frame carries its
\* number.
C22_UnknownCommandRejected ==
    [][\A cmd \in UnknownCommands :
          readFromInput(TagUserText, <<"/">> \o cmd) =>
              /\ Output' = Output \o
                    <<Frame(TagError, "unknown cmd <" \o Str(cmd) \o ">", 0, 0, 0),
                      Frame(TagStreamGap, "", 0, 0, 0)>>
              /\ CountTag(Output', TagError) = CountTag(Output, TagError) + 1
              /\ UNCHANGED <<taskQueue, inProgress, cancelCurrent, Messages,
                             TotalSpent, ContextTokens, loops, sub, dropped>>
              /\ nextId \notin TasksAnywhere'
              /\ \A k \in DOMAIN Output' :
                    Output'[k].tag = TagPromptStart => Output'[k].id /= nextId]_vars

\* C22 witness: while the first prompt is inside the Agent call, the frame
\* "//" (the unknown command "/") has been answered by its error frame
C22_Witness ==
    /\ nextId = 3
    /\ inProgress
    /\ RunningTasks = {1}
    /\ \E k \in DOMAIN Output :
          Output[k] = Frame(TagError, "unknown cmd </>", 0, 0, 0)
    /\ StartedSeq = <<1>>
    /\ sub.pc = "idle"

\* C24: each WriteTLV(output, tag, value) issues exactly one Output.Write
\* call, and its argument is 1 + 4 + len(value) bytes long: the tag byte,
\* the length of value as four bytes with the highest first, then the bytes
\* of value.
C24_OneWritePerFrame ==
    /\ codec.pc /= "off"
    /\ Len(codec.writes) = codec.w
    /\ \A k \in 1..Len(codec.writes) :
          LET msg == codec.writes[k]
              f == codec.frames[k]
          IN  /\ Len(msg) = 1 + 4 + Len(f.value)
              /\ msg[1] = f.tag
              /\ msg[2] * 16777216 + msg[3] * 65536 + msg[4] * 256 + msg[5]
                    = Len(f.value)
              /\ \A j \in 2..5 : msg[j] \in 0..255
              /\ SubSeq(msg, 6, Len(msg)) = f.value

\* C24 witness: two frames have been written, the first with no payload
\* and the second with a payload of two bytes
C24_Witness ==
    /\ codec.pc /= "off"
    /\ codec.w = 2
    /\ codec.writes[1] = <<TagErrorByte, 0, 0, 0, 0>>
    /\ codec.writes[2] = <<TagToolByte, 0, 0, 0, 2, 1, TagToolByte>>

\* the k-th frame ReadTLV returned is the k-th frame written
ReadBack(k) ==
    codec.got[k] = [tag |-> codec.frames[k].tag,
                    data |-> codec.frames[k].value, pad |-> 0]

\* the Input holds the bytes written, each Write in one piece or the whole
\* stream in one piece, and not NopInput, which holds nothing
DeliveredWhole ==
    /\ codec.pc = "read"
    /\ codec.input /= "nop"
    /\ codec.sent \in {codec.writes, <<Concat(codec.writes)>>}

\* C26: round trip.  For every tag and every payload, of length 0 included,
\* ReadTLV on the bytes WriteTLV wrote returns the same tag and the same
\* payload, and no error.
C26_RoundTrip ==
    DeliveredWhole =>
        /\ \A k \in 1..Min(Len(codec.got), Len(codec.frames)) : ReadBack(k)
        /\ Len(codec.got) < Len(codec.frames) => codec.rd.pc /= "returned"

\* C26 witness: a frame with no payload and a frame with a payload of two
\* bytes, each delivered as one piece, have both been read back
C26_Witness ==
    /\ DeliveredWhole
    /\ codec.sent = codec.writes
    /\ Len(codec.frames) = 2
    /\ codec.frames[1].value = <<>>
    /\ Len(codec.frames[2].value) = 2
    /\ Len(codec.got) = 2
    /\ ReadBack(1)
    /\ ReadBack(2)

\* C28: ReadTLV puts a frame together again when its bytes arrive in
\* several short reads: whatever the pieces the Input hands out, the k-th
\* call returns the k-th frame written, without an error, and the next call
\* starts at the first byte of the next frame.
C28_ShortReadsReassembled ==
    (codec.pc = "read" /\ codec.input /= "nop") =>
        /\ \A k \in 1..Min(Len(codec.got), Len(codec.frames)) : ReadBack(k)
        /\ Len(codec.got) < Len(codec.frames) => codec.rd.pc /= "returned"

\* the result of the Read call the read loop is about to make
PendingRead ==
    InputRead(codec.input, codec.ch, codec.buf,
              CASE codec.rd.pc = "tag" -> 1
                [] codec.rd.pc = "len" -> 4
                [] codec.rd.pc = "value" -> codec.rd.length)

\* C23: when a Read of the Input returns an error, the read loop returns:
\* the frame being read is not handed on, no Read is made after it and no
\* further frame is taken from the input; on NopInput, whose every Read
\* reports the end of the stream, the loop returns on its first Read.
C23_ReadErrorEndsLoop ==
    [][/\ (codec.pc = "read" /\ codec.rd.pc /= "returned"
              /\ codec'.reads = codec.reads + 1
              /\ PendingRead.err /= "nil")
          => (codec'.rd.pc = "returned" /\ codec'.got = codec.got)
       /\ codec.rd.pc = "returned" => codec' = codec
       /\ codec'.input = "nop"
          => /\ codec'.reads <= 1
             /\ codec'.got = <<>>
             /\ codec'.reads = 1 => codec'.rd.pc = "returned"]_vars

\* C23 witness: a buffered reader has handed out two frames and reported
\* the end of the stream on the Read for the tag of a third; the loop has
\* returned
C23_Witness ==
    /\ codec.pc = "read"
    /\ codec.input = "reader"
    /\ Len(codec.frames) = 2
    /\ Len(codec.got) = 2
    /\ ReadBack(1)
    /\ ReadBack(2)
    /\ codec.rd.pc = "returned"

\* what processBuffer does with the whole stream, given in one Write
DecodedWhole == processBuffer(codec.variant, Concat(codec.writes), <<>>)

\* C27: fragmentation invariance of processBuffer.  Whatever the pieces the
\* encoded stream is fed in, one piece per Write, a cut inside the length
\* field included, the events dispatched once every piece is in, and the
\* bytes left in the buffer, are those of feeding the stream in one Write;
\* before that, the events dispatched are the first of them.
C27_FragmentationInvariance ==
    codec.pc = "read" =>
        /\ Len(codec.events) <= Len(DecodedWhole.events)
        /\ codec.events = SubSeq(DecodedWhole.events, 1, Len(codec.events))
        /\ codec.ch = <<>> =>
              /\ codec.events = DecodedWhole.events
              /\ codec.buffer = DecodedWhole.buffer
              /\ codec.panic = DecodedWhole.panic

\* C27 witness: the strict decoder has been fed two frames in three pieces,
\* the first cut inside the length field of the first frame, and has
\* dispatched both
C27_Witness ==
    /\ codec.pc = "read"
    /\ codec.variant = "strict"
    /\ Len(codec.sent) = 3
    /\ Len(codec.sent[1]) \in 2..4
    /\ codec.ch = <<>>
    /\ Len(codec.frames) = 2
    /\ codec.events = [k \in 1..2 |-> [tag |-> codec.frames[k].tag,
                                       value |-> codec.frames[k].value]]

\* the frames the two goroutines write
FramesWritten ==
    UNION {{codec.th[i].frames[k] : k \in DOMAIN codec.th[i].frames} :
              i \in Writers}

\* b is a concatenation of whole frames, each one of those written
RECURSIVE WholeFrames(_)
WholeFrames(b) ==
    \/ b = <<>>
    \/ /\ Len(b) >= 5
       /\ LET length == Int32OfUint32(SubSeq(b, 2, 5))
          IN  /\ length >= 0
              /\ 5 + length <= Len(b)
              /\ [tag |-> b[1], value |-> SubSeq(b, 6, 5 + length)]
                    \in FramesWritten
              /\ WholeFrames(SubSeq(b, 6 + length, Len(b)))

\* C25: with the producer and the loop writing to the same Output at the
\* same time, the bytes the consumer has received (those the decoder has
\* taken and those waiting in its buffer) are a concatenation of whole
\* frames: no byte of one frame stands among the bytes of another.
C25_NoInterleavedFrames ==
    codec.pc = "writers" =>
        WholeFrames(codec.seen \o SliceBytes(codec.mem, codec.buffer))

\* the step in which the Agent call of loop i invokes the callback cb
CallbackStep(i, cb) ==
    /\ loops[i].pc = "agent"
    /\ loops' = [loops EXCEPT ![i] = [pc |-> "agent", task |-> @.task,
                                      cb |-> cb]]

\* C29: every tool-call callback, whatever the tool name and the JSON
\* input, puts exactly one tool frame on Output, with the payload
\* "<tool-name>: <argument summary>" (followed by the gap frame of the
\* callback).
C29_OneToolFramePerCall ==
    [][\A i \in DOMAIN loops, tc \in ToolCalls :
          (/\ CallbackStep(i, "OnToolCall")
           /\ Output' = Callback(Output, "OnToolCall", tc, loops[i].task.id))
          => /\ CountTag(Output', TagTool) = CountTag(Output, TagTool) + 1
             /\ Output' = Output \o
                   <<Frame(TagTool, tc.name \o ": " \o tc.arg,
                           loops[i].task.id, 0, 0),
                     Frame(TagStreamGap, "", loops[i].task.id, 0, 0)>>]_vars

\* C30: a tool-result callback writes no frame to Output and changes
\* nothing of the session: queue, inProgress, cancel handle, history, usage
\* and the task the loop holds are as before.
C30_ToolResultSilent ==
    [][\A i \in DOMAIN loops :
          (CallbackStep(i, "OnToolResult") /\ loops' /= loops)
          => /\ Output' = Output
             /\ UNCHANGED <<taskQueue, inProgress, cancelCurrent, canceled,
                            Messages, TotalSpent, ContextTokens, sub, nextId,
                            dropped, panicked>>]_vars

\* C30 witness: a callback of the running task has written a gap frame, and
\* then the Agent has reported the result of a tool; Output still ends with
\* the promptStart frames of the task and that gap frame
C30_Witness ==
    \E i \in DOMAIN loops :
        /\ loops[i].pc = "agent"
        /\ "cb" \in DOMAIN loops[i]
        /\ loops[i].cb = "OnToolResult"
        /\ Len(Output) = 4
        /\ Output[2].tag = TagPromptStart
        /\ Output[2].id = loops[i].task.id
        /\ Output[4] = Frame(TagStreamGap, "", loops[i].task.id, 0, 0)

\* the fields of the Session that the next step of loop goroutine i writes
LoopWrites(i) ==
    CASE loops[i].pc \in {"spawned", "exit"} -> {"inProgress"}
      [] loops[i].pc \in {"setCancel", "clear"} -> {"cancelCurrent"}
      [] loops[i].pc = "signal" ->
             IF loops[i].task.kind = "prompt" THEN {"Messages"} ELSE {}
      [] loops[i].pc = "agent" -> {"Messages", "TotalSpent", "ContextTokens"}
      [] loops[i].pc = "check" -> {"Messages"}
      [] OTHER -> {}

\* the fields that a call in progress on another goroutine reads next:
\* SubmitTask reads s.inProgress twice after queueTask, CancelCurrent reads
\* s.cancelCurrent again for the call
OutsideReads ==
    (IF sub.pc \in {"queued", "start"} THEN {"inProgress"} ELSE {})
    \cup (IF canc.pc = "call" THEN {"cancelCurrent"} ELSE {})

\* C31: no thread other than the loop thread reads inProgress,
\* cancelCurrent, the history or the usage counters at the same time as the
\* loop thread writes that field.  The Session has no mutex and no atomic
\* value, so a read and a write that are both the next step of their
\* goroutine are not ordered by anything
C31_OutsideAccessSynchronized ==
    \A i \in DOMAIN loops : LoopWrites(i) \cap OutsideReads = {}

\* C32: when the external editor finishes with an error, the input value
\* and the stored editor content are left as they were and one error line
\* is appended to the display buffer
C32_EditorErrorKeepsInput ==
    [][\A msg \in EditorMsgs :
          (UpdateEditorFinished(msg) /\ msg.err /= "nil") =>
              /\ codec'.input = codec.input
              /\ codec'.editorContent = codec.editorContent
              /\ codec'.display = Append(codec.display,
                                         EditorErrorLine(msg.err))]_vars

\* an editor run that failed after an earlier run had left editor content
\* and its preview behind
C32_Witness ==
    /\ codec.pc = "input"
    /\ codec.edits = 2
    /\ Len(codec.display) = 1
    /\ codec.editorContent = LongWord
    /\ codec.input = EditorPreview(LongWord)

LengthFed ==
    LET s == Concat(codec.sent) IN
    [high |-> s[2], low |-> (s[3] * 256 + s[4]) * 256 + s[5]]

\* the bytes fed so far are fewer than 5 + length, length read as a uint32
FrameIncomplete ==
    LET fed == Len(Concat(codec.sent)) - Len(Concat(codec.ch)) IN
    \/ fed < 5
    \/ LengthFed.high > 0
    \/ fed < 5 + LengthFed.low

\* C34: for every value of the length field the decoder never indexes
\* outside its buffer, and while fewer than 5 + length bytes are buffered it
\* dispatches nothing and keeps what it has
C34_LengthNeverOutOfRange ==
    /\ ~codec.panic
    /\ FrameIncomplete =>
          /\ codec.events = <<>>
          /\ Concat(codec.sent) = codec.buffer \o Concat(codec.ch)

\* C35: whenever no processing loop is active, the last goroutine having
\* returned, no goroutine waiting to begin and no SubmitTask call on its
\* way to starting one, the task queue is empty
C35_NoStrandedTask ==
    (/\ \A i \in DOMAIN loops : loops[i].pc = "done"
     /\ sub.pc = "idle") => taskQueue = <<>>

\* C36: for a task that gets a "[Queued]" notify frame, that frame is on
\* Output before the task's own promptStart frame: at the step of the
\* SubmitTask call that writes the notify of a task, no promptStart frame of
\* that task is on Output yet
C36_QueuedNotifyBeforeStart ==
    [][(sub.pc = "queued" /\ sub'.pc = "start" /\ Output' /= Output) =>
           ~Started(sub.task.id)]_vars

\* C37: history never holds two user messages one after the other: the turn
\* a prompt's user message opens is closed by an assistant message before
\* the user message of the next prompt is appended, also when the Agent
\* call fails or returns no assistant message
C37_NoConsecutiveUserMessages ==
    \A k \in 1..(Len(Messages) - 1) :
        ~(Messages[k].role = "user" /\ Messages[k + 1].role = "user")

\* C38: when the Agent call made by Summarize fails, the return of
\* Summarize leaves the history, the usage totals and ContextTokens as they
\* are and writes no frame
C38_FailedSummarizeNoEffect ==
    [][\A i \in DOMAIN loops :
          (/\ loops[i].pc = "account"
           /\ loops[i].task.kind = "summarize"
           /\ loops[i].outcome = "err"
           /\ loops'[i].pc = "check") =>
              /\ Messages' = Messages
              /\ TotalSpent' = TotalSpent
              /\ ContextTokens' = ContextTokens
              /\ Output' = Output]_vars

\* a summarize command has failed after a prompt that succeeded: the loop
\* is past the command, no system frame of the command is on Output, and
\* the history and the counters are those the prompt left
C38_Witness ==
    /\ Len(loops) = 1
    /\ loops[1].pc = "check"
    /\ loops[1].task = [id |-> 2, kind |-> "summarize"]
    /\ PosOf(2, {TagSystem}) = {}
    /\ Messages = <<Msg("user", "prompt", 1), Msg("assistant", "reply", 1)>>
    /\ TotalSpent.TotalTokens = 3
    /\ ContextTokens = 3

\* the user messages of task t in the history
UserMessagesOf(t) ==
    {k \in DOMAIN Messages : Messages[k] = Msg("user", "prompt", t)}

\* C39: while a prompt task is inside the Agent call its user message is in
\* the history exactly once, and the list the Agent was given is the
\* history as it was before that message was appended
C39_AgentGetsHistoryBeforePrompt ==
    \A i \in DOMAIN loops :
        loops[i].pc = "agent" =>
            /\ Cardinality(UserMessagesOf(loops[i].task.id)) = 1
            /\ loops[i].api = loops[i].before

\* the frame "/c": the cancel command
CancelFrame == <<"/">> \o CancelName

\* C40: the cancel command is run by readFromInput itself and never
\* becomes a task.  Read while a task is inside the Agent call, it writes
\* no error frame and goes on to the task's handle, which it finds and
\* calls, so that the task is canceled; read on an idle session, it writes
\* exactly one error frame, "nothing to cancel", and changes nothing else
C40_CancelCommandSynchronous ==
    [][/\ \A k \in DOMAIN taskQueue' :
             taskQueue'[k].kind /= "prompt" => taskQueue'[k].text /= CancelName
       /\ readFromInput(TagUserText, CancelFrame) =>
             /\ UNCHANGED <<taskQueue, loops, dropped>>
             /\ nextId \notin TasksAnywhere'
             /\ RunningTasks /= {} =>
                   /\ Output' = Output
                   /\ sub'.pc = "cancelTest"
             /\ SessionIdle =>
                   /\ Output' = Output \o
                         <<Frame(TagError, "nothing to cancel", 0, 0, 0),
                           Frame(TagStreamGap, "", 0, 0, 0)>>
                   /\ UNCHANGED <<sub, inProgress, cancelCurrent, canceled,
                                  Messages, TotalSpent, ContextTokens,
                                  panicked>>
       /\ (sub.pc = "cancelTest" /\ sub' /= sub /\ RunningTasks /= {}) =>
             /\ Output' = Output
             /\ sub'.pc = "cancelCall"
             /\ sub'.h \in RunningTasks
       /\ (sub.pc = "cancelCall" /\ sub' /= sub /\ sub.h \in RunningTasks) =>
             /\ Output' = Output
             /\ ~panicked'
             /\ sub.h \in canceled']_vars
====
